---- MODULE Spec2Model ----
(***************************************************************************)
(* A model of NAA-API: the response envelope (APIResponse), the routing    *)
(* tree (Node), the version registry and the dispatcher (API).             *)
(*                                                                         *)
(* Python strings are tuples of one-character strings, so that slicing,    *)
(* splitting and title-casing are computed character by character.         *)
(* Python values are tagged records: None, int, bool, str, dict, tuple and *)
(* APIResponse; an exception leaving a call is the value Raise(exc).       *)
(***************************************************************************)
EXTENDS Integers, Sequences, FiniteSets, TLC

VARIABLES
    api,     \* the API object: its fields, named as in API.__init__
    nodes,   \* the heap of Node objects; a Node is named by its index
    phase,   \* "setup" before run_api, then "serving" or "failed"
    inp,     \* the input of the last operation: for a request, its method and
             \* path and the answers user code gives while it is dispatched
    out,     \* the value the last operation returned (or the exception it raised)
    trace    \* the calls to user code the last operation made, in order

vars == <<api, nodes, phase, inp, out, trace>>


(***************************************************************************)
(* Bounds of the model.                                                    *)
(***************************************************************************)
\* the number of segments of a request path
MaxSegs == 3
\* the number of top-level registration calls made before run_api
MaxRegs == 2

(***************************************************************************)
(* Python values.                                                          *)
(***************************************************************************)
None == [t |-> "none"]
PyInt(i) == [t |-> "int", i |-> i]
PyBool(b) == [t |-> "bool", b |-> b]
PyStr(s) == [t |-> "str", s |-> s]
PyDict(d) == [t |-> "dict", d |-> d]
PyTuple(e) == [t |-> "tuple", e |-> e]
Raise(exc) == [t |-> "raise", exc |-> exc]

EmptyDict == [k \in {} |-> None]
\* dict.update(other): the keys of other win
DictUpdate(d, other) ==
    [k \in (DOMAIN d) \cup (DOMAIN other) |->
        IF k \in DOMAIN other THEN other[k] ELSE d[k]]
\* the dict without key k
DictWithout(d, k) == [j \in (DOMAIN d) \ {k} |-> d[j]]

(***************************************************************************)
(* str.title(): a cased character is upper-cased when the character before *)
(* it is not cased, and lower-cased when it is; others are left alone.     *)
(***************************************************************************)
Lowers == <<"a","b","c","d","e","f","g","h","i","j","k","l","m",
            "n","o","p","q","r","s","t","u","v","w","x","y","z">>
Uppers == <<"A","B","C","D","E","F","G","H","I","J","K","L","M",
            "N","O","P","Q","R","S","T","U","V","W","X","Y","Z">>
IsLower(c) == \E i \in DOMAIN Lowers : Lowers[i] = c
IsUpper(c) == \E i \in DOMAIN Uppers : Uppers[i] = c
IsCased(c) == IsLower(c) \/ IsUpper(c)
ToUpper(c) == IF IsLower(c) THEN Uppers[CHOOSE i \in DOMAIN Lowers : Lowers[i] = c] ELSE c
ToLower(c) == IF IsUpper(c) THEN Lowers[CHOOSE i \in DOMAIN Uppers : Uppers[i] = c] ELSE c
Title(s) ==
    [i \in 1..Len(s) |->
        IF IsCased(s[i])
        THEN IF i > 1 /\ IsCased(s[i - 1]) THEN ToLower(s[i]) ELSE ToUpper(s[i])
        ELSE s[i]]

(***************************************************************************)
(* str.upper()                                                             *)
(***************************************************************************)
Upper(s) == [i \in 1..Len(s) |-> ToUpper(s[i])]

(***************************************************************************)
(* APIResponse.DEFAULT_MESSAGES: the phrases of the status codes the model *)
(* uses; the table's __getitem__ answers "" for a code it does not hold.   *)
(***************************************************************************)
DEFAULT_MESSAGES ==
    (200 :> <<"O","K">>)
    @@ (201 :> <<"C","r","e","a","t","e","d">>)
    @@ (403 :> <<"F","o","r","b","i","d","d","e","n">>)
    @@ (404 :> <<"N","o","t"," ","F","o","u","n","d">>)
    @@ (405 :> <<"M","e","t","h","o","d"," ","N","o","t"," ","A","l","l","o","w","e","d">>)
    @@ (429 :> <<"T","o","o"," ","M","a","n","y"," ","R","e","q","u","e","s","t","s">>)
DefaultMessage(status) ==
    IF status \in DOMAIN DEFAULT_MESSAGES THEN DEFAULT_MESSAGES[status] ELSE <<>>

(***************************************************************************)
(* APIResponse: the envelope. APIResponseInit is APIResponse.__init__,     *)
(* called with Python values; an argument left out is None.                *)
(***************************************************************************)
APIResponse(status_code, response, message) ==
    [t |-> "APIResponse", status_code |-> status_code,
     response |-> response, message |-> message]

\* APIResponse.__init__ with a message passed separately kept before the
\* body's "message" entry
APIResponseInit_MessageArgFirst(status_code, response, message) ==
    LET m1 == IF response.t = "str" THEN response ELSE message
        r1 == IF response.t = "str" THEN PyDict(EmptyDict) ELSE response
        r2 == IF status_code.t = "dict" THEN status_code ELSE r1
        s2 == IF status_code.t = "dict" THEN PyInt(200) ELSE status_code
        r3 == IF r2.t = "none" THEN PyDict(EmptyDict) ELSE r2
    IN  IF s2.t # "int" \/ r3.t # "dict"
        THEN Raise("AssertionError")
        ELSE LET m4 == IF m1.t # "none" THEN m1
                       ELSE IF "message" \in DOMAIN r3.d THEN r3.d["message"] ELSE m1
                 r4 == DictWithout(r3.d, "message")
                 m5 == IF m4.t = "none" THEN PyStr(DefaultMessage(s2.i)) ELSE m4
             IN  IF m5.t # "str"
                 THEN Raise("AssertionError")
                 ELSE APIResponse(s2.i, r4, Title(m5.s))

APIResponseInit(status_code, response, message) ==
    LET \* if isinstance(response, str): message, response = response, {}
        m1 == IF response.t = "str" THEN response ELSE message
        r1 == IF response.t = "str" THEN PyDict(EmptyDict) ELSE response
        \* if isinstance(status_code, dict): response, status_code = status_code, 200
        r2 == IF status_code.t = "dict" THEN status_code ELSE r1
        s2 == IF status_code.t = "dict" THEN PyInt(200) ELSE status_code
        \* if response is None: response = {}
        r3 == IF r2.t = "none" THEN PyDict(EmptyDict) ELSE r2
    IN  IF s2.t # "int" \/ r3.t # "dict"
        THEN Raise("AssertionError")
        ELSE LET \* message = response.pop("message", message)
                 m4 == IF "message" \in DOMAIN r3.d THEN r3.d["message"] ELSE m1
                 r4 == DictWithout(r3.d, "message")
                 code == s2.i
                 \* if message is None: message = self.DEFAULT_MESSAGES[status_code]
                 m5 == IF m4.t = "none" THEN PyStr(DefaultMessage(code)) ELSE m4
             IN  IF m5.t # "str"
                 THEN Raise("AssertionError")
                 ELSE APIResponse(code, r4, Title(m5.s))

\* the message setter of APIResponse
SetMessage(r, value) ==
    IF value.t # "str" THEN Raise("AssertionError")
    ELSE [r EXCEPT !.message = Title(value.s)]

(***************************************************************************)
(* Strings: s[n:] and s.split("/")                                         *)
(***************************************************************************)
SliceFrom(s, n) == SubSeq(s, n + 1, Len(s))

RECURSIVE Split(_)
Split(s) ==
    IF \A i \in 1..Len(s) : s[i] # "/"
    THEN <<s>>
    ELSE LET i == CHOOSE k \in 1..Len(s) : s[k] = "/" /\ \A j \in 1..(k - 1) : s[j] # "/"
         IN  <<SubSeq(s, 1, i - 1)>> \o Split(SliceFrom(s, i))

\* x in list
InSeq(x, seq) == \E i \in 1..Len(seq) : seq[i] = x

(***************************************************************************)
(* web.HTTP_METHODS                                                        *)
(***************************************************************************)
HTTP_METHODS ==
    << <<"G","E","T">>, <<"H","E","A","D">>, <<"P","O","S","T">>, <<"P","U","T">>,
       <<"D","E","L","E","T","E">>, <<"C","O","N","N","E","C","T">>,
       <<"O","P","T","I","O","N","S">>, <<"T","R","A","C","E">>,
       <<"P","A","T","C","H">> >>

ALLOWED_LIBS == {"AlbertUnruhUtils"}

\* Node.__init__ taking the methods as they are written
NodeInit_AsWritten(methods, ignore_invalid_methods, used_libs) ==
    LET valid(m) == InSeq(m, HTTP_METHODS)
        ms == SelectSeq(methods, valid)
    IN  [clb |-> None,
         parent |-> 0,
         must_warn |-> (ms = <<>>) /\ ~ignore_invalid_methods,
         methods |-> ms,
         checks_request |-> <<>>,
         checks_response |-> <<>>,
         children |-> <<>>,
         used_libs |-> used_libs]

(***************************************************************************)
(* Node. A Node is a record in the heap `nodes`; its children map a child  *)
(* name to the index of the child.                                         *)
(***************************************************************************)
\* Node.__init__
NodeInit(methods, ignore_invalid_methods, used_libs) ==
    LET upper == [i \in 1..Len(methods) |-> Upper(methods[i])]
        valid(m) == InSeq(m, HTTP_METHODS)
        ms == SelectSeq(upper, valid)
    IN  [clb |-> None,
         parent |-> 0,
         must_warn |-> (ms = <<>>) /\ ~ignore_invalid_methods,
         methods |-> ms,
         checks_request |-> <<>>,
         checks_response |-> <<>>,
         children |-> <<>>,
         used_libs |-> used_libs]

\* Node.__call__: binds the handler; the second component tells whether the
\* RuntimeWarning about missing methods is emitted
NodeCall(node, clb) ==
    [node |-> [node EXCEPT !.clb = clb], warned |-> node.must_warn]

\* a user function, known by its __name__: a handler, whose name is the
\* child name it registers, or a registration callback
Function(name) == [t |-> "function", name |-> name]
Callback(name) == [t |-> "callback", name |-> name]

\* d[k] = v on a mapping kept as a function
MapSet(d, k, v) == [j \in (DOMAIN d) \cup {k} |-> IF j = k THEN v ELSE d[j]]

(***************************************************************************)
(* Calls into user code. A request check answers what the oracle says for  *)
(* its position; a handler returns the oracle's value. A response check is *)
(* a function with a fixed effect on the envelope it is given.             *)
(***************************************************************************)
\* bool(x)
Truthy(x) ==
    CASE x.t = "bool" -> x.b
      [] x.t = "int" -> x.i # 0
      [] x.t = "none" -> FALSE
      [] x.t = "str" -> x.s # <<>>
      [] x.t = "dict" -> DOMAIN x.d # {}
      [] x.t = "tuple" -> x.e # <<>>
      [] OTHER -> TRUE

\* the effect of a response check on the envelope
ApplyEffect(result, effect) ==
    CASE effect.k = "set" ->
            [result EXCEPT !.response = MapSet(result.response, effect.key, effect.value)]
      [] effect.k = "message" -> SetMessage(result, effect.value)
      [] effect.k = "copy_message" ->
            [result EXCEPT !.response =
                MapSet(result.response, effect.key, PyStr(result.message))]
      [] OTHER -> result

(***************************************************************************)
(* Node.run                                                                *)
(***************************************************************************)
\* for check, default in self._checks_request: if not check(request): return ...
RECURSIVE NodeRequestChecks(_, _, _, _)
\* the loop remembering the first failure and going on
NodeRequestChecks_KeepGoing(checks, outcomes, i, id) ==
    IF i > Len(checks)
    THEN [failed |-> 0, trace |-> <<>>]
    ELSE LET ev == [ev |-> "request_check", node |-> id, i |-> i,
                    clb |-> checks[i].clb, ret |-> outcomes[i]]
             rest == NodeRequestChecks(checks, outcomes, i + 1, id)
         IN  [failed |-> IF ~outcomes[i] THEN i ELSE rest.failed,
              trace |-> <<ev>> \o rest.trace]

NodeRequestChecks(checks, outcomes, i, id) ==
    IF i > Len(checks)
    THEN [failed |-> 0, trace |-> <<>>]
    ELSE LET ev == [ev |-> "request_check", node |-> id, i |-> i,
                    clb |-> checks[i].clb, ret |-> outcomes[i]]
         IN  IF ~outcomes[i]
             THEN [failed |-> i, trace |-> <<ev>>]
             ELSE LET rest == NodeRequestChecks(checks, outcomes, i + 1, id)
                  IN  [failed |-> rest.failed, trace |-> <<ev>> \o rest.trace]

\* for check in self._checks_response: check(result)
RECURSIVE NodeResponseChecks(_, _, _, _)
\* the loop giving every check the envelope as the handler left it, the
\* last check's envelope being returned
NodeResponseChecks_EachOnItsOwn(checks, i, result, id) ==
    IF i > Len(checks)
    THEN [result |-> result, trace |-> <<>>]
    ELSE LET ev == [ev |-> "response_check", node |-> id, i |-> i,
                    clb |-> checks[i].clb, saw |-> result]
             rest == NodeResponseChecks(checks, i + 1, result, id)
         IN  [result |-> IF i = Len(checks) THEN ApplyEffect(result, checks[i].effect)
                         ELSE rest.result,
              trace |-> <<ev>> \o rest.trace]

NodeResponseChecks(checks, i, result, id) ==
    IF i > Len(checks)
    THEN [result |-> result, trace |-> <<>>]
    ELSE LET ev == [ev |-> "response_check", node |-> id, i |-> i,
                    clb |-> checks[i].clb, saw |-> result]
             rest == NodeResponseChecks(checks, i + 1, ApplyEffect(result, checks[i].effect), id)
         IN  [result |-> rest.result, trace |-> <<ev>> \o rest.trace]

\* auu, result = result; if not auu[0]: result = 429
\* (the unpacking wants an iterable of two; auu[0] wants a sequence)
UnpackRateLimit(result) ==
    IF result.t # "tuple" THEN Raise("TypeError")
    ELSE IF Len(result.e) # 2 THEN Raise("ValueError")
    ELSE LET auu == result.e[1]
         IN  IF auu.t # "tuple" THEN Raise("TypeError")
             ELSE IF Len(auu.e) < 1 THEN Raise("IndexError")
             ELSE [t |-> "unpacked", auu |-> auu,
                   result |-> IF ~Truthy(auu.e[1]) THEN PyInt(429) ELSE result.e[2]]

\* if isinstance(result, tuple): APIResponse(*result) else: APIResponse(result)
Normalize(result) ==
    IF result.t = "tuple"
    THEN IF Len(result.e) \notin 1..3 THEN Raise("TypeError")
         ELSE APIResponseInit(result.e[1],
                              IF Len(result.e) >= 2 THEN result.e[2] ELSE None,
                              IF Len(result.e) >= 3 THEN result.e[3] ELSE None)
    ELSE APIResponseInit(result, None, None)

\* result._response.update(auu[1])
MergeMetadata(result, auu) ==
    IF Len(auu.e) < 2 THEN Raise("IndexError")
    ELSE IF auu.e[2].t # "dict" THEN Raise("TypeError")
    ELSE [result EXCEPT !.response = DictUpdate(result.response, auu.e[2].d)]

\* the calls made so far, then those of the call that answered r
After(called, r) == [result |-> r.result, trace |-> called \o r.trace]

\* run asking the request checks before it looks at the method
NodeRun_ChecksFirst(heap, id, request, oracle) ==
    LET self == heap[id]
        enter == <<[ev |-> "run", node |-> id]>>
        Checks(merged, called) ==
            IF merged.t = "raise" THEN [result |-> merged, trace |-> called]
            ELSE After(called, NodeResponseChecks(self.checks_response, 1, merged, id))
        Merge(result, auu, called) ==
            IF result.t = "raise" THEN [result |-> result, trace |-> called]
            ELSE Checks(MergeMetadata(result, auu), called)
        Build(un, called) ==
            IF un.t = "raise" THEN [result |-> un, trace |-> called]
            ELSE Merge(Normalize(un.result), un.auu, called)
        Call(called) ==
            Build(IF InSeq("AlbertUnruhUtils", self.used_libs)
                  THEN UnpackRateLimit(oracle.ret)
                  ELSE [t |-> "unpacked", auu |-> PyTuple(<<None, PyDict(EmptyDict)>>),
                        result |-> oracle.ret],
                  called)
        Guard(rc) ==
            IF rc.failed # 0
            THEN [result |-> APIResponseInit(PyInt(self.checks_request[rc.failed].default),
                                             None, None),
                  trace |-> enter \o rc.trace]
            ELSE IF ~InSeq(request.method, self.methods)
            THEN [result |-> APIResponseInit(PyInt(405), None, None),
                  trace |-> enter \o rc.trace]
            ELSE Call(enter \o rc.trace
                        \o <<[ev |-> "handler", node |-> id, ret |-> oracle.ret]>>)
    IN  Guard(NodeRequestChecks(self.checks_request,
                                [i \in 1..Len(self.checks_request) |->
                                    IF i \in DOMAIN oracle.node_checks
                                    THEN oracle.node_checks[i] ELSE TRUE],
                                1, id))

NodeRun(heap, id, request, oracle) ==
    LET self == heap[id]
        enter == <<[ev |-> "run", node |-> id]>>
        \* for check in self._checks_response: check(result); return result
        Checks(merged, called) ==
            IF merged.t = "raise" THEN [result |-> merged, trace |-> called]
            ELSE After(called, NodeResponseChecks(self.checks_response, 1, merged, id))
        \* result._response.update(auu[1])
        Merge(result, auu, called) ==
            IF result.t = "raise" THEN [result |-> result, trace |-> called]
            ELSE Checks(MergeMetadata(result, auu), called)
        \* if isinstance(result, tuple): ... else: ...
        Build(un, called) ==
            IF un.t = "raise" THEN [result |-> un, trace |-> called]
            ELSE Merge(Normalize(un.result), un.auu, called)
        \* result = self._clb(request); auu = (None, {}); if "AlbertUnruhUtils" ...
        Call(called) ==
            Build(IF InSeq("AlbertUnruhUtils", self.used_libs)
                  THEN UnpackRateLimit(oracle.ret)
                  ELSE [t |-> "unpacked", auu |-> PyTuple(<<None, PyDict(EmptyDict)>>),
                        result |-> oracle.ret],
                  called)
        \* for check, default in self._checks_request: ...
        Guard(rc) ==
            IF rc.failed # 0
            THEN [result |-> APIResponseInit(PyInt(self.checks_request[rc.failed].default),
                                             None, None),
                  trace |-> enter \o rc.trace]
            ELSE Call(enter \o rc.trace
                        \o <<[ev |-> "handler", node |-> id, ret |-> oracle.ret]>>)
    IN  IF ~InSeq(request.method, self.methods)
        THEN [result |-> APIResponseInit(PyInt(405), None, None), trace |-> enter]
        ELSE Guard(NodeRequestChecks(self.checks_request, oracle.node_checks, 1, id))

(***************************************************************************)
(* Node.find_node                                                          *)
(***************************************************************************)
RECURSIVE FindNode(_, _, _, _, _)
\* find_node running the first child it finds, whatever is left of the path
FindNode_FirstSegmentOnly(heap, id, path, request, oracle) ==
    LET self == heap[id]
        enter == <<[ev |-> "find_node", node |-> id, segment |-> path[1]]>>
    IN  IF path[1] \in DOMAIN self.children
        THEN After(enter, NodeRun(heap, self.children[path[1]], request, oracle))
        ELSE [result |-> APIResponseInit(PyInt(404), None, None), trace |-> enter]

\* find_node asking every node on the way whether it accepts the method
FindNode_GatedOnTheWay(heap, id, path, request, oracle) ==
    LET self == heap[id]
        enter == <<[ev |-> "find_node", node |-> id, segment |-> path[1]]>>
    IN  IF path[1] \in DOMAIN self.children
        THEN After(enter,
                   IF Len(path) = 1
                   THEN NodeRun(heap, self.children[path[1]], request, oracle)
                   ELSE IF ~InSeq(request.method, heap[self.children[path[1]]].methods)
                   THEN [result |-> APIResponseInit(PyInt(405), None, None), trace |-> <<>>]
                   ELSE FindNode(heap, self.children[path[1]], Tail(path), request, oracle))
        ELSE [result |-> APIResponseInit(PyInt(404), None, None), trace |-> enter]

FindNode(heap, id, path, request, oracle) ==
    LET self == heap[id]
        enter == <<[ev |-> "find_node", node |-> id, segment |-> path[1]]>>
    IN  IF path[1] \in DOMAIN self.children
        THEN After(enter,
                   IF Len(path) = 1
                   THEN NodeRun(heap, self.children[path[1]], request, oracle)
                   ELSE FindNode(heap, self.children[path[1]], Tail(path), request, oracle))
        ELSE [result |-> APIResponseInit(PyInt(404), None, None), trace |-> enter]

(***************************************************************************)
(* API.__init__                                                            *)
(***************************************************************************)
Digits == <<"0","1","2","3","4","5","6","7","8","9">>
RECURSIVE StrOfInt(_)
StrOfInt(n) ==
    IF n < 10 THEN <<Digits[n + 1]>> ELSE StrOfInt(n \div 10) \o <<Digits[(n % 10) + 1]>>

\* version_pattern.format(version=...): the pattern is a list of pieces, the
\* piece "{version}" being the substitution marker
RECURSIVE Format(_, _)
Format(pattern, version) ==
    IF pattern = <<>> THEN <<>>
    ELSE (IF Head(pattern) = "{version}" THEN StrOfInt(version) ELSE <<Head(pattern)>>)
         \o Format(Tail(pattern), version)

APIInit(default, version_pattern, used_libs) ==
    IF ~InSeq("{version}", version_pattern) THEN Raise("AssertionError")
    ELSE IF \E i \in 1..Len(used_libs) : used_libs[i] \notin ALLOWED_LIBS
    THEN Raise("AssertionError")
    ELSE [t |-> "API",
          checks_request_global |-> <<>>,
          checks_response_global |-> <<>>,
          versions |-> <<>>,
          default_endpoint |-> Function("_default_endpoint"),
          version_pattern |-> version_pattern,
          version_default |-> PyStr(Format(version_pattern, default)),
          current_version |-> None,
          used_libs |-> used_libs]

(***************************************************************************)
(* Registration. The registration callbacks are user code: a callback is a *)
(* list of calls on the API object and on the nodes it has created, which  *)
(* the callback names by the handler they were created for.                *)
(* A registration runs on st = [api, nodes, env, raised, warned]: env are  *)
(* the callback's local names, raised the exception unwinding (or None).   *)
(***************************************************************************)
\* API._get_version
GetVersion(a) ==
    IF a.current_version = None THEN Raise("AssertionError") ELSE a.current_version

\* API.add(*methods, ignore_invalid_methods)(clb)
ApiAdd(st, methods, ignore_invalid_methods, name) ==
    LET version == GetVersion(st.api)
    IN  IF version.t = "raise" THEN [st EXCEPT !.raised = version]
        ELSE LET made == NodeCall(NodeInit(methods, ignore_invalid_methods, st.api.used_libs),
                                  Function(name))
                 id == Len(st.nodes) + 1
                 root == st.api.versions[version.s]
             IN  [st EXCEPT
                    !.nodes = Append([st.nodes EXCEPT ![root].children =
                                        MapSet(st.nodes[root].children, name, id)],
                                     made.node),
                    !.env = MapSet(st.env, name, id),
                    !.warned = st.warned + (IF made.warned THEN 1 ELSE 0)]

\* Node.add keeping the child a name already has
NodeAdd_KeepFirst(st, on, methods, ignore_invalid_methods, name) ==
    LET self == st.env[on]
        node == [NodeInit(methods, ignore_invalid_methods, st.nodes[self].used_libs)
                    EXCEPT !.parent = self]
        made == NodeCall(node, Function(name))
        id == Len(st.nodes) + 1
    IN  [st EXCEPT
            !.nodes = Append([st.nodes EXCEPT ![self].children =
                                IF name \in DOMAIN @ THEN @ ELSE MapSet(@, name, id)],
                             made.node),
            !.env = MapSet(st.env, name, id),
            !.warned = st.warned + (IF made.warned THEN 1 ELSE 0)]

\* Node.add(*methods, ignore_invalid_methods)(clb), on the node the callback
\* knows as `on`
NodeAdd(st, on, methods, ignore_invalid_methods, name) ==
    LET self == st.env[on]
        node == [NodeInit(methods, ignore_invalid_methods, st.nodes[self].used_libs)
                    EXCEPT !.parent = self]
        made == NodeCall(node, Function(name))
        id == Len(st.nodes) + 1
    IN  [st EXCEPT
            !.nodes = Append([st.nodes EXCEPT ![self].children =
                                MapSet(st.nodes[self].children, name, id)],
                             made.node),
            !.env = MapSet(st.env, name, id),
            !.warned = st.warned + (IF made.warned THEN 1 ELSE 0)]

\* Node.add_request_check(default_return_value)(clb)
NodeAddRequestCheck(st, on, default_return_value, clb) ==
    LET self == st.env[on]
    IN  [st EXCEPT !.nodes[self].checks_request =
            Append(@, [clb |-> clb, default |-> default_return_value])]

\* Node.add_response_check()(clb)
NodeAddResponseCheck(st, on, clb, effect) ==
    LET self == st.env[on]
    IN  [st EXCEPT !.nodes[self].checks_response =
            Append(@, [clb |-> clb, effect |-> effect])]

\* API.add_global_request_check(default_return_value)(clb)
AddGlobalRequestCheck(st, default_return_value, clb) ==
    LET version == GetVersion(st.api)
    IN  IF version.t = "raise" THEN [st EXCEPT !.raised = version]
        ELSE [st EXCEPT !.api.checks_request_global[version.s] =
                Append(@, [clb |-> clb, default |-> default_return_value])]

\* API.add_global_response_check()(clb)
AddGlobalResponseCheck(st, clb, effect) ==
    LET version == GetVersion(st.api)
    IN  IF version.t = "raise" THEN [st EXCEPT !.raised = version]
        ELSE [st EXCEPT !.api.checks_response_global[version.s] =
                Append(@, [clb |-> clb, effect |-> effect])]

\* dict.get(key, default)
MapGet(d, k, default) == IF k \in DOMAIN d THEN d[k] ELSE default

(***************************************************************************)
(* The registration callbacks the model's user code consists of. Handlers  *)
(* are named by the child name they register: a and v2.                    *)
(***************************************************************************)
GET == <<"G","E","T">>
POST == <<"P","O","S","T">>
NameA == <<"a">>
NameV2 == <<"v","2">>

SetX == [k |-> "set", key |-> "x", value |-> PyInt(1)]
SetBodyMessage == [k |-> "set", key |-> "message", value |-> PyStr(<<"h","i">>)]
SetEnvelopeMessage == [k |-> "message", value |-> PyStr(<<"o","k"," ","n","o","w">>)]
CopyMessage == [k |-> "copy_message", key |-> "seen"]

UserCallbacks ==
    [ \* /a (GET), /a/v2 (POST, given as "post" beside an invalid method) and
      \* /v2 (GET)
      tree |-> << [op |-> "add", methods |-> <<GET>>, ignore |-> FALSE, name |-> NameA],
                  [op |-> "node_add", on |-> NameA,
                   methods |-> << <<"p","o","s","t">>, <<"F","O","O">> >>,
                   ignore |-> FALSE, name |-> NameV2],
                  [op |-> "add", methods |-> <<GET>>, ignore |-> FALSE, name |-> NameV2] >>,
      \* /a (GET) with two request checks and two response checks, under two
      \* global request checks and two global response checks
      checked |-> << [op |-> "add_global_request_check", default |-> 403, clb |-> "g1"],
                     [op |-> "add_global_request_check", default |-> 200, clb |-> "g2"],
                     [op |-> "add", methods |-> <<GET>>, ignore |-> FALSE, name |-> NameA],
                     [op |-> "add_request_check", on |-> NameA, default |-> 403, clb |-> "c1"],
                     [op |-> "add_request_check", on |-> NameA, default |-> 201, clb |-> "c2"],
                     [op |-> "add_response_check", on |-> NameA, clb |-> "r1",
                      effect |-> SetEnvelopeMessage],
                     [op |-> "add_response_check", on |-> NameA, clb |-> "r2",
                      effect |-> CopyMessage],
                     [op |-> "add_global_response_check", clb |-> "s1", effect |-> SetX],
                     [op |-> "add_global_response_check", clb |-> "s2",
                      effect |-> SetBodyMessage] >>,
      \* /a (GET) and /v2 (GET)
      plain |-> << [op |-> "add", methods |-> <<GET>>, ignore |-> FALSE, name |-> NameA],
                   [op |-> "add", methods |-> <<GET>>, ignore |-> FALSE, name |-> NameV2] >>,
      \* /v2 (GET), then an exception
      broken |-> << [op |-> "add", methods |-> <<GET>>, ignore |-> FALSE, name |-> NameV2],
                    [op |-> "raise"] >>,
      \* /a (GET), then version 2 registered with `plain`, then /v2 (POST)
      nested |-> << [op |-> "add", methods |-> <<GET>>, ignore |-> FALSE, name |-> NameA],
                    [op |-> "add_version", version |-> 2, fallback |-> <<>>,
                     clb |-> "plain"],
                    [op |-> "add", methods |-> <<POST>>, ignore |-> FALSE,
                     name |-> NameV2] >>,
      \* /a (GET); /a/v2 (GET, with a request check) and then /a/v2 again
      \* (POST); /v2 (GET) with /v2/a (GET) and then /v2 again (POST)
      twice |-> << [op |-> "add", methods |-> <<GET>>, ignore |-> FALSE, name |-> NameA],
                   [op |-> "node_add", on |-> NameA, methods |-> <<GET>>,
                    ignore |-> FALSE, name |-> NameV2],
                   [op |-> "add_request_check", on |-> NameV2, default |-> 403, clb |-> "c1"],
                   [op |-> "node_add", on |-> NameA, methods |-> <<POST>>,
                    ignore |-> FALSE, name |-> NameV2],
                   [op |-> "add", methods |-> <<GET>>, ignore |-> FALSE, name |-> NameV2],
                   [op |-> "node_add", on |-> NameV2, methods |-> <<GET>>,
                    ignore |-> FALSE, name |-> NameA],
                   [op |-> "add", methods |-> <<POST>>, ignore |-> FALSE, name |-> NameV2] >>,
      \* /a (POST, with a request check and a response check), /a/v2 (GET, with
      \* a request check) and /a/v2/a (GET)
      deep |-> << [op |-> "add", methods |-> <<POST>>, ignore |-> FALSE, name |-> NameA],
                  [op |-> "add_request_check", on |-> NameA, default |-> 403, clb |-> "c1"],
                  [op |-> "add_response_check", on |-> NameA, clb |-> "r1", effect |-> SetX],
                  [op |-> "node_add", on |-> NameA, methods |-> <<GET>>,
                   ignore |-> FALSE, name |-> NameV2],
                  [op |-> "add_request_check", on |-> NameV2, default |-> 401, clb |-> "c2"],
                  [op |-> "node_add", on |-> NameV2, methods |-> <<GET>>,
                   ignore |-> FALSE, name |-> NameA] >> ]

\* the callbacks registered before the requests are served
CallbackNames == {"tree", "checked"}

(***************************************************************************)
(* API.add_version(version, fallback=...)(clb)                             *)
(***************************************************************************)
RECURSIVE AddVersionDecorator(_, _, _)
RECURSIVE AddVersion(_, _, _, _)
RECURSIVE ExecBody(_, _, _)

\* one call of a callback's body
ExecInstr(st, c) ==
    CASE c.op = "add" -> ApiAdd(st, c.methods, c.ignore, c.name)
      [] c.op = "node_add" -> NodeAdd(st, c.on, c.methods, c.ignore, c.name)
      [] c.op = "add_request_check" -> NodeAddRequestCheck(st, c.on, c.default, c.clb)
      [] c.op = "add_response_check" -> NodeAddResponseCheck(st, c.on, c.clb, c.effect)
      [] c.op = "add_global_request_check" -> AddGlobalRequestCheck(st, c.default, c.clb)
      [] c.op = "add_global_response_check" -> AddGlobalResponseCheck(st, c.clb, c.effect)
      [] c.op = "add_version" ->
            [AddVersion(st, c.version, c.fallback, c.clb) EXCEPT !.env = st.env]
      [] c.op = "raise" -> [st EXCEPT !.raised = Raise("RuntimeError")]

\* the body from its i-th call on; an exception ends it
ExecBody(st, body, i) ==
    IF i > Len(body) \/ st.raised # None THEN st
    ELSE ExecBody(ExecInstr(st, body[i]), body, i + 1)

\* the decorator putting the new root in the place of the registered one
AddVersionDecorator_Replacing(st, version, clb) ==
    LET current_version == Format(st.api.version_pattern, version)
        a1 == [st.api EXCEPT
                !.current_version = PyStr(current_version),
                !.checks_request_global =
                    MapSet(@, current_version, MapGet(@, current_version, <<>>)),
                !.checks_response_global =
                    MapSet(@, current_version, MapGet(@, current_version, <<>>))]
        made == NodeCall(NodeInit(HTTP_METHODS, FALSE, a1.used_libs), Callback(clb))
        id == Len(st.nodes) + 1
        before == [st EXCEPT
                    !.api = [a1 EXCEPT !.versions = MapSet(@, current_version, id)],
                    !.nodes = Append(@, made.node),
                    !.env = <<>>]
        after == ExecBody(before, UserCallbacks[clb], 1)
    IN  IF after.raised # None THEN after
        ELSE [after EXCEPT !.api.current_version = None]

\* the decorator starting the global check lists of the version anew
AddVersionDecorator_FreshLists(st, version, clb) ==
    LET current_version == Format(st.api.version_pattern, version)
        a1 == [st.api EXCEPT
                !.current_version = PyStr(current_version),
                !.checks_request_global =
                    MapSet(@, current_version, <<>>),
                !.checks_response_global =
                    MapSet(@, current_version, <<>>)]
        \* version_node = self._versions.get(current, Node(...)): its children
        version_children ==
            IF current_version \in DOMAIN a1.versions
            THEN st.nodes[a1.versions[current_version]].children
            ELSE <<>>
        made == NodeCall(NodeInit(HTTP_METHODS, FALSE, a1.used_libs), Callback(clb))
        \* node._children.update(version_node._children)
        node == [made.node EXCEPT !.children = version_children]
        id == Len(st.nodes) + 1
        before == [st EXCEPT
                    !.api = [a1 EXCEPT !.versions = MapSet(@, current_version, id)],
                    !.nodes = Append(@, node),
                    !.env = <<>>]
        \* clb(self)
        after == ExecBody(before, UserCallbacks[clb], 1)
    IN  IF after.raised # None THEN after
        ELSE [after EXCEPT !.api.current_version = None]

\* decorator(clb) of add_version
AddVersionDecorator(st, version, clb) ==
    LET current_version == Format(st.api.version_pattern, version)
        a1 == [st.api EXCEPT
                !.current_version = PyStr(current_version),
                !.checks_request_global =
                    MapSet(@, current_version, MapGet(@, current_version, <<>>)),
                !.checks_response_global =
                    MapSet(@, current_version, MapGet(@, current_version, <<>>))]
        \* version_node = self._versions.get(current, Node(...)): its children
        version_children ==
            IF current_version \in DOMAIN a1.versions
            THEN st.nodes[a1.versions[current_version]].children
            ELSE <<>>
        made == NodeCall(NodeInit(HTTP_METHODS, FALSE, a1.used_libs), Callback(clb))
        \* node._children.update(version_node._children)
        node == [made.node EXCEPT !.children = version_children]
        id == Len(st.nodes) + 1
        before == [st EXCEPT
                    !.api = [a1 EXCEPT !.versions = MapSet(@, current_version, id)],
                    !.nodes = Append(@, node),
                    !.env = <<>>]
        \* clb(self)
        after == ExecBody(before, UserCallbacks[clb], 1)
    IN  IF after.raised # None THEN after
        ELSE [after EXCEPT !.api.current_version = None]

\* for fb in fallback or []: self.add_version(version)(fb)
RECURSIVE AddVersionFallbacks(_, _, _, _)
AddVersionFallbacks(st, version, fallback, i) ==
    IF i > Len(fallback) \/ st.raised # None THEN st
    ELSE AddVersionFallbacks(AddVersion(st, version, <<>>, fallback[i]), version, fallback, i + 1)

\* add_version applying the callback before the fallbacks
AddVersion_PrimaryFirst(st, version, fallback, clb) ==
    LET primary == AddVersionDecorator(st, version, clb)
    IN  IF primary.raised # None THEN primary
        ELSE AddVersionFallbacks(primary, version, fallback, 1)

AddVersion(st, version, fallback, clb) ==
    LET fb == AddVersionFallbacks(st, version, fallback, 1)
    IN  IF fb.raised # None THEN fb ELSE AddVersionDecorator(fb, version, clb)

\* API.default_endpoint(clb)
DefaultEndpoint(a, clb) == [a EXCEPT !.default_endpoint = Function(clb)]

\* the version roots created so far, and the registration calls made
RootCount(heap) == Cardinality({i \in 1..Len(heap) : heap[i].clb.t = "callback"})
RegCount(a, heap) ==
    RootCount(heap) + (IF a.default_endpoint.name = "_default_endpoint" THEN 0 ELSE 1)

(***************************************************************************)
(* API.run_api: the startup check, then the transport is started           *)
(***************************************************************************)
RunApiCheck(a) ==
    IF DOMAIN a.versions # {} /\ a.version_default # None
    THEN IF a.version_default.s \notin DOMAIN a.versions
         THEN Raise("RuntimeError")
         ELSE None
    ELSE None

(***************************************************************************)
(* API._application: the dispatcher                                        *)
(***************************************************************************)
\* werkzeug's Response
Response(status, response) ==
    [t |-> "Response", status |-> status, response |-> response,
     content_type |-> "application/json"]

\* json.dumps of a dict: the JSON object with the dict's members
Dumps(d) == [t |-> "json", object |-> d]

\* the version segment cut off without its separator
ResolveVersion_KeepSeparator(a, request_path) ==
    LET path == SliceFrom(request_path, 1)
        p == Split(path)
    IN  IF p # <<>> /\ p[1] \in DOMAIN a.versions
        THEN [version |-> PyStr(p[1]), path |-> SliceFrom(path, Len(p[1]))]
        ELSE [version |-> a.version_default, path |-> path]

\* lines 110-121: the version and the path left of request.path
ResolveVersion(a, request_path) ==
    LET path == SliceFrom(request_path, 1)
        p == Split(path)
    IN  IF p # <<>> /\ p[1] \in DOMAIN a.versions
        THEN [version |-> PyStr(p[1]), path |-> SliceFrom(path, Len(p[1]) + 1)]
        ELSE [version |-> a.version_default, path |-> path]

\* for check, status in self._checks_request_global.get(version): ...
RECURSIVE GlobalRequestChecks(_, _, _)
\* the loop remembering the first failure and going on
GlobalRequestChecks_KeepGoing(checks, outcomes, i) ==
    IF i > Len(checks)
    THEN [failed |-> 0, trace |-> <<>>]
    ELSE LET ev == [ev |-> "global_request_check", i |-> i,
                    clb |-> checks[i].clb, ret |-> outcomes[i]]
             rest == GlobalRequestChecks(checks, outcomes, i + 1)
         IN  [failed |-> IF ~outcomes[i] THEN i ELSE rest.failed,
              trace |-> <<ev>> \o rest.trace]

GlobalRequestChecks(checks, outcomes, i) ==
    IF i > Len(checks)
    THEN [failed |-> 0, trace |-> <<>>]
    ELSE LET ev == [ev |-> "global_request_check", i |-> i,
                    clb |-> checks[i].clb, ret |-> outcomes[i]]
         IN  IF ~outcomes[i]
             THEN [failed |-> i, trace |-> <<ev>>]
             ELSE LET rest == GlobalRequestChecks(checks, outcomes, i + 1)
                  IN  [failed |-> rest.failed, trace |-> <<ev>> \o rest.trace]

\* the response of a failed global request check
GlobalCheckResponse(status) ==
    Response(status, Dumps("message" :> PyStr(DefaultMessage(status))))

\* for check in self._checks_response_global.get(version): check(result)
RECURSIVE GlobalResponseChecks(_, _, _)
GlobalResponseChecks(checks, i, result) ==
    IF i > Len(checks)
    THEN [result |-> result, trace |-> <<>>]
    ELSE LET ev == [ev |-> "global_response_check", i |-> i,
                    clb |-> checks[i].clb, saw |-> result]
         IN  IF result.t # "APIResponse"
             THEN [result |-> Raise("AttributeError"), trace |-> <<ev>>]
             ELSE LET rest == GlobalResponseChecks(checks, i + 1,
                                                   ApplyEffect(result, checks[i].effect))
                  IN  [result |-> rest.result, trace |-> <<ev>> \o rest.trace]

\* web._default_endpoint, or the endpoint set with API.default_endpoint
CallDefaultEndpoint(a, oracle) ==
    IF a.default_endpoint.name = "_default_endpoint"
    THEN APIResponseInit(PyInt(404), PyDict("message" :> PyStr(<<"N","o"," ","P","a","t","h","!">>)), None)
    ELSE oracle.ret

\* lines 139-152: the default endpoint and the rate-limit integration
RunDefaultEndpoint(a, oracle) ==
    LET \* result._response.update(auu[1])
        Merge(result, auu, called) ==
            IF result.t # "APIResponse"
            THEN [result |-> Raise("AttributeError"), trace |-> called]
            ELSE [result |-> MergeMetadata(result, auu), trace |-> called]
        \* if not auu[0]: result = APIResponse(429)
        Limit(auu, returned, called) ==
            IF auu.t # "tuple" THEN [result |-> Raise("TypeError"), trace |-> called]
            ELSE IF Len(auu.e) < 1 THEN [result |-> Raise("IndexError"), trace |-> called]
            ELSE Merge(IF ~Truthy(auu.e[1]) THEN APIResponseInit(PyInt(429), None, None)
                       ELSE returned.e[2],
                       auu, called)
        \* if "AlbertUnruhUtils" in self._used_libs: auu, result = result
        Unpack(returned, called) ==
            IF ~InSeq("AlbertUnruhUtils", a.used_libs)
            THEN [result |-> returned, trace |-> called]
            ELSE IF returned.t # "tuple"
            THEN [result |-> Raise("TypeError"), trace |-> called]
            ELSE IF Len(returned.e) # 2
            THEN [result |-> Raise("ValueError"), trace |-> called]
            ELSE Limit(returned.e[1], returned, called)
        \* result = self._default_endpoint(request)
        Call(returned) ==
            Unpack(returned, <<[ev |-> "default_endpoint", clb |-> a.default_endpoint.name,
                                ret |-> returned]>>)
    IN  Call(CallDefaultEndpoint(a, oracle))

\* the serialization keeping a "message" entry the body has
Serialize_KeepBodyMessage(result) ==
    IF result.t # "APIResponse" THEN Raise("AttributeError")
    ELSE Response(result.status_code,
                  Dumps(IF "message" \in DOMAIN result.response THEN result.response
                        ELSE MapSet(result.response, "message", PyStr(result.message))))

\* lines 163-171: the response of an envelope
Serialize(result) ==
    IF result.t # "APIResponse" THEN Raise("AttributeError")
    ELSE Response(result.status_code,
                  Dumps(MapSet(result.response, "message", PyStr(result.message))))

\* the dispatcher taking the global checks of the default version
Application_DefaultVersionChecks(a, heap, request, oracle) ==
    LET \* lines 163-171
        Finish(post, called) ==
            [out |-> IF post.result.t = "raise" THEN post.result
                     ELSE Serialize(post.result),
             trace |-> called \o post.trace]
        \* lines 160-161
        Check(routed, version, called) ==
            IF routed.result.t = "raise"
            THEN [out |-> routed.result, trace |-> called \o routed.trace]
            ELSE Finish(GlobalResponseChecks(a.checks_response_global[a.version_default.s],
                                             1, routed.result),
                        called \o routed.trace)
        \* lines 139-158
        Route(pre, req, made) ==
            IF pre.failed # 0
            THEN [out |-> GlobalCheckResponse(
                            a.checks_request_global[a.version_default.s][pre.failed].default),
                  trace |-> made \o pre.trace]
            ELSE Check(IF req.url = <<>>
                       THEN RunDefaultEndpoint(a, oracle)
                       ELSE FindNode(heap, a.versions[req.version.s], Split(req.url),
                                     req, oracle),
                       req.version, made \o pre.trace)
        \* lines 131-137
        Pre(req) ==
            IF req.version = None \/ req.version.s \notin DOMAIN a.checks_request_global
               \/ a.version_default.s \notin DOMAIN a.checks_request_global
            THEN \* .get(version) is None, which the for loop cannot iterate
                 [out |-> Raise("TypeError"), trace |-> <<[ev |-> "APIRequest", request |-> req]>>]
            ELSE Route(GlobalRequestChecks(a.checks_request_global[a.version_default.s],
                                           oracle.global_checks, 1),
                       req, <<[ev |-> "APIRequest", request |-> req]>>)
        \* lines 123-129: request = APIRequest(method=..., url=path, version=version)
        Build(resolved) ==
            Pre([t |-> "APIRequest", method |-> request.method, url |-> resolved.path,
                 version |-> resolved.version])
    IN  Build(ResolveVersion(a, request.path))

\* API._application
Application(a, heap, request, oracle) ==
    LET \* lines 163-171
        Finish(post, called) ==
            [out |-> IF post.result.t = "raise" THEN post.result
                     ELSE Serialize(post.result),
             trace |-> called \o post.trace]
        \* lines 160-161
        Check(routed, version, called) ==
            IF routed.result.t = "raise"
            THEN [out |-> routed.result, trace |-> called \o routed.trace]
            ELSE Finish(GlobalResponseChecks(a.checks_response_global[version.s],
                                             1, routed.result),
                        called \o routed.trace)
        \* lines 139-158
        Route(pre, req, made) ==
            IF pre.failed # 0
            THEN [out |-> GlobalCheckResponse(
                            a.checks_request_global[req.version.s][pre.failed].default),
                  trace |-> made \o pre.trace]
            ELSE Check(IF req.url = <<>>
                       THEN RunDefaultEndpoint(a, oracle)
                       ELSE FindNode(heap, a.versions[req.version.s], Split(req.url),
                                     req, oracle),
                       req.version, made \o pre.trace)
        \* lines 131-137
        Pre(req) ==
            IF req.version = None \/ req.version.s \notin DOMAIN a.checks_request_global
            THEN \* .get(version) is None, which the for loop cannot iterate
                 [out |-> Raise("TypeError"), trace |-> <<[ev |-> "APIRequest", request |-> req]>>]
            ELSE Route(GlobalRequestChecks(a.checks_request_global[req.version.s],
                                           oracle.global_checks, 1),
                       req, <<[ev |-> "APIRequest", request |-> req]>>)
        \* lines 123-129: request = APIRequest(method=..., url=path, version=version)
        Build(resolved) ==
            Pre([t |-> "APIRequest", method |-> request.method, url |-> resolved.path,
                 version |-> resolved.version])
    IN  Build(ResolveVersion(a, request.path))

(***************************************************************************)
(* The requests and the answers of user code the model draws from.         *)
(***************************************************************************)
DefaultVersion == 1
VersionPattern == <<"v", "{version}">>
Versions == {1, 2}
TagV1 == <<"v","1">>
Segments == {<<>>, NameA, TagV1, NameV2}
RequestMethods == {GET, POST}

\* "/".join(segments)
RECURSIVE Join(_)
Join(segs) ==
    IF segs = <<>> THEN <<>>
    ELSE IF Len(segs) = 1 THEN segs[1]
    ELSE segs[1] \o <<"/">> \o Join(Tail(segs))

RequestPaths ==
    UNION { { <<"/">> \o Join(segs) : segs \in [1..n -> Segments] } : n \in 0..MaxSegs }

\* what a handler returns without the rate-limit integration: the four
\* documented shapes
HelloBody == ("message" :> PyStr(<<"h","i"," ","y","o","u">>)) @@ ("x" :> PyInt(1))
PlainReturns ==
    { PyInt(200),
      PyTuple(<<PyInt(201), PyDict("x" :> PyInt(1))>>),
      PyTuple(<<PyInt(201), PyStr(<<"e","n","t","r","y"," ","n","e","w">>)>>),
      APIResponseInit(PyInt(200), PyDict(HelloBody), None) }

\* and with it: ((allowed, metadata), result)
Metadata == { EmptyDict, "limit" :> PyInt(5), "message" :> PyStr(<<"s","l","o","w">>) }
LimitedReturns ==
    { PyTuple(<<PyTuple(<<PyBool(allowed), PyDict(md)>>), r>>) :
        allowed \in BOOLEAN, md \in Metadata, r \in PlainReturns }

HandlerReturns(a) ==
    IF InSeq("AlbertUnruhUtils", a.used_libs) THEN LimitedReturns ELSE PlainReturns

\* the longest list of checks registered
RECURSIVE MaxOf(_)
MaxOf(S) == IF S = {} THEN 0
            ELSE LET x == CHOOSE y \in S : TRUE
                     m == MaxOf(S \ {x})
                 IN  IF x > m THEN x ELSE m
LongestList(a, heap) ==
    MaxOf({Len(heap[i].checks_request) : i \in 1..Len(heap)}
          \cup {Len(a.checks_request_global[v]) : v \in DOMAIN a.checks_request_global})

\* the answers of user code that a request can meet: found by dispatching it
\* with every check passing
Oracles(a, heap, request) ==
    LET pass == [i \in 1..LongestList(a, heap) |-> TRUE]
        Count(probe, ev) == Cardinality({i \in 1..Len(probe) : probe[i].ev = ev})
        Returns(probe) == \E i \in 1..Len(probe) :
                             \/ probe[i].ev = "handler"
                             \/ /\ probe[i].ev = "default_endpoint"
                                /\ probe[i].clb # "_default_endpoint"
        Answers(probe) ==
            [ret : IF Returns(probe) THEN HandlerReturns(a) ELSE {None},
             node_checks : [1..Count(probe, "request_check") -> BOOLEAN],
             global_checks : [1..Count(probe, "global_request_check") -> BOOLEAN]]
    IN  Answers(Application(a, heap, request,
                            [ret |-> None, node_checks |-> pass,
                             global_checks |-> pass]).trace)

(***************************************************************************)
(* The state machine: construction, registration, run_api, requests.       *)
(***************************************************************************)
\* api = API(), or API(used_libs=["AlbertUnruhUtils"])
Constructed(used_libs) ==
    /\ api = APIInit(DefaultVersion, VersionPattern, used_libs)
    /\ nodes = <<>>
    /\ phase = "setup"
    /\ inp = None
    /\ out = None
    /\ trace = <<>>

Init == Constructed(<<>>)
InitRateLimit == Constructed(<<"AlbertUnruhUtils">>)

\* api.add_version(version, fallback=fallback)(clb), the callback included
Register(version, fallback, clb) ==
    /\ phase = "setup"
    /\ LET st == AddVersion([api |-> api, nodes |-> nodes, env |-> <<>>,
                             raised |-> None, warned |-> 0],
                            version, fallback, clb)
       IN  /\ RegCount(st.api, st.nodes) <= MaxRegs
           /\ api' = st.api
           /\ nodes' = st.nodes
           /\ out' = st.raised
    /\ inp' = None
    /\ UNCHANGED <<phase, trace>>

\* api.default_endpoint(index)
SetDefaultEndpoint ==
    /\ phase = "setup"
    /\ api' = DefaultEndpoint(api, "index")
    /\ RegCount(api', nodes) <= MaxRegs
    /\ out' = None
    /\ inp' = None
    /\ UNCHANGED <<nodes, phase, trace>>

\* api.run_api(): raises, or starts the transport
RunApi ==
    /\ phase = "setup"
    /\ out' = RunApiCheck(api)
    /\ phase' = IF out'.t = "raise" THEN "failed" ELSE "serving"
    /\ inp' = None
    /\ UNCHANGED <<api, nodes, trace>>

\* a dispatcher that keeps the resolved tag in the cursor of the API
Dispatch_MovingCursor(method, path) ==
    /\ phase = "serving"
    /\ inp = None
    /\ LET request == [t |-> "Request", method |-> method, path |-> path,
                       answers |-> None]
       IN  \E oracle \in Oracles(api, nodes, request) :
              \E r \in {Application(api, nodes, request, oracle)} :
                 /\ inp' = [request EXCEPT !.answers = oracle]
                 /\ out' = r.out
                 /\ trace' = r.trace
                 /\ api' = [api EXCEPT !.current_version = r.trace[1].request.version]
    /\ UNCHANGED <<nodes, phase>>

\* the transport hands a request to API._application
Dispatch(method, path) ==
    /\ phase = "serving"
    /\ inp = None
    /\ LET request == [t |-> "Request", method |-> method, path |-> path,
                       answers |-> None]
       IN  \E oracle \in Oracles(api, nodes, request) :
              \E r \in {Application(api, nodes, request, oracle)} :
                 /\ inp' = [request EXCEPT !.answers = oracle]
                 /\ out' = r.out
                 /\ trace' = r.trace
    /\ UNCHANGED <<api, nodes, phase>>

\* the transport has sent the response; the next request can come
Deliver ==
    /\ phase = "serving"
    /\ inp # None
    /\ inp' = None
    /\ out' = None
    /\ trace' = <<>>
    /\ UNCHANGED <<api, nodes, phase>>

Next ==
    \/ \E version \in Versions, clb \in CallbackNames : Register(version, <<>>, clb)
    \/ SetDefaultEndpoint
    \/ RunApi
    \/ \E method \in RequestMethods, path \in RequestPaths : Dispatch(method, path)
    \/ Deliver

Spec == Init /\ [][Next]_vars
\* the same with the rate-limit integration enabled
SpecRateLimit == InitRateLimit /\ [][Next]_vars

(***************************************************************************)
(* APIResponse(...) on its own: the constructor applied to the argument    *)
(* shapes user code passes.                                                *)
(***************************************************************************)
Bodies == { EmptyDict, "x" :> PyInt(1), HelloBody, "message" :> PyStr(<<"O","K">>) }
Messages == { <<"C","r","e","a","t","e","d","!">>, <<"e","n","t","r","y"," ","n","e","w">> }
StatusArgs == { PyInt(200), PyInt(201), PyInt(299) } \cup { PyDict(b) : b \in Bodies }
ResponseArgs == { None } \cup { PyDict(b) : b \in Bodies } \cup { PyStr(m) : m \in Messages }
MessageArgs == { None } \cup { PyStr(m) : m \in Messages }

Construct(status_code, response, message) ==
    /\ inp = None
    /\ inp' = [t |-> "construct", status_code |-> status_code,
               response |-> response, message |-> message]
    /\ out' = APIResponseInit(status_code, response, message)
    /\ UNCHANGED <<api, nodes, phase, trace>>

NextEnvelope ==
    \E status_code \in StatusArgs, response \in ResponseArgs, message \in MessageArgs :
        Construct(status_code, response, message)

SpecEnvelope == Init /\ [][NextEnvelope]_vars

(***************************************************************************)
(* C6. Envelope normalization.                                             *)
(***************************************************************************)
\* the body map without its "message" entry
BodyOf(d) == [k \in (DOMAIN d) \ {"message"} |-> d[k]]

\* what the claim says of a construction, the message being finished by `case`
\* (the identity in the claim as stated, title-casing in the amended claim)
C6_Says(case(_)) ==
    inp.t = "construct" =>
        LET s == inp.status_code
            r == inp.response
            m == inp.message
            \* a "message" entry of the body map wins over a message passed apart
            msg(body, given, code) ==
                IF "message" \in DOMAIN body THEN case(body["message"].s)
                ELSE IF given # None THEN case(given.s)
                ELSE case(DefaultMessage(code))
        IN  /\ (s.t = "int" /\ r = None /\ m = None) =>
                out = APIResponse(s.i, <<>>, case(DefaultMessage(s.i)))
            /\ (s.t = "int" /\ r.t = "dict") =>
                out = APIResponse(s.i, BodyOf(r.d), msg(r.d, m, s.i))
            /\ (s.t = "int" /\ r.t = "str" /\ m = None) =>
                out = APIResponse(s.i, <<>>, case(r.s))
            /\ (s.t = "dict" /\ r = None) =>
                out = APIResponse(200, BodyOf(s.d), msg(s.d, m, 200))

AsGiven(message) == message

IsRequest == inp.t = "Request"
\* the events of one kind in the trace, in order
Events(kind) == SelectSeq(trace, LAMBDA e : e.ev = kind)
Happened(kind) == \E i \in 1..Len(trace) : trace[i].ev = kind
\* the request path without its leading slash, and its first segment
PathGiven == Tail(inp.path)
FirstSegment(p) ==
    LET stops == {k \in 1..Len(p) : p[k] = "/"}
    IN  IF stops = {} THEN p
        ELSE SubSeq(p, 1, (CHOOSE k \in stops : \A j \in stops : k <= j) - 1)
\* the node a chain of child names leads to from a node; 0 when a name is no child
RECURSIVE Walk(_, _)
Walk(id, names) ==
    IF names = <<>> THEN id
    ELSE IF names[1] \in DOMAIN nodes[id].children
         THEN Walk(nodes[id].children[names[1]], Tail(names))
         ELSE 0
\* an envelope after a list of response checks
RECURSIVE AfterChecks(_, _)
AfterChecks(result, checks) ==
    IF checks = <<>> THEN result
    ELSE AfterChecks(ApplyEffect(result, Head(checks).effect), Tail(checks))
\* the response that carries an envelope
Carrying(result) ==
    [t |-> "Response", status |-> result.status_code,
     response |-> [t |-> "json", object |->
                    [k \in (DOMAIN result.response) \cup {"message"} |->
                        IF k = "message" THEN PyStr(result.message)
                        ELSE result.response[k]]],
     content_type |-> "application/json"]
AllPass(answers) == \A i \in DOMAIN answers : answers[i]

(***************************************************************************)
(* C1. Dispatch of registered and unregistered (version, path, method).    *)
(***************************************************************************)
\* what the claim says of a request /V/n1/.../nk none of whose checks fails,
\* `final` being the envelope the response carries, given the normalized
\* handler result, the node and the version
C1_Says(final(_, _, _)) ==
    IsRequest /\ AllPass(inp.answers.global_checks) /\ AllPass(inp.answers.node_checks) =>
        \A V \in DOMAIN api.versions, k \in 1..MaxSegs :
            \A names \in [1..k -> Segments] :
                (inp.path = <<"/">> \o V \o <<"/">> \o Join(names) /\ Join(names) # <<>>) =>
                    LET n == Walk(api.versions[V], names)
                        normalized == Normalize(inp.answers.ret)
                    IN  IF n = 0 THEN out.t = "Response" /\ out.status = 404
                        ELSE IF ~InSeq(inp.method, nodes[n].methods)
                        THEN out.t = "Response" /\ out.status = 405
                        ELSE normalized.t = "APIResponse" =>
                                out = Carrying(final(normalized, n, V))

Untouched(normalized, n, V) == normalized
Checked(normalized, n, V) ==
    AfterChecks(AfterChecks(normalized, nodes[n].checks_response),
                api.checks_response_global[V])

C2_VersionResolution ==
    IsRequest =>
        LET first == FirstSegment(PathGiven)
            request == trace[1].request
            routes == Events("find_node")
        IN  IF first \in DOMAIN api.versions
            THEN /\ request.version = PyStr(first)
                 /\ \/ PathGiven = first /\ request.url = <<>>
                    \/ PathGiven = first \o <<"/">> \o request.url
                 /\ routes # <<>> => routes[1].node = api.versions[first]
            ELSE /\ request.version = api.version_default
                 /\ request.url = PathGiven

\* /v2/a goes to the version v2 although the default version has a child v2
C2_Witness ==
    /\ IsRequest
    /\ inp.path = <<"/">> \o NameV2 \o <<"/">> \o NameA
    /\ NameV2 \in DOMAIN api.versions
    /\ NameV2 \in DOMAIN nodes[api.versions[api.version_default.s]].children
    /\ api.versions[NameV2] # api.versions[api.version_default.s]
    /\ Happened("find_node")
    /\ Events("find_node")[1].node = api.versions[NameV2]
    /\ trace[1].request.url = NameA

(***************************************************************************)
(* C3. The request checks of a node stop at the first that fails.          *)
(***************************************************************************)
\* the least position whose answer is false; 0 when every answer is true
FirstFalse(answers) ==
    LET fails == {i \in DOMAIN answers : ~answers[i]}
    IN  IF fails = {} THEN 0 ELSE CHOOSE k \in fails : \A j \in fails : k <= j

\* C3: when Node.run meets request checks the first of which to return false
\* is at position k, the checks 1..k run once each, in registration order, no
\* later check runs, the handler is not invoked and the status returned is the
\* fallback status registered with check k.
C3_NodeChecksShortCircuit ==
    IsRequest /\ Happened("run") =>
        LET n == Events("run")[1].node
            checks == nodes[n].checks_request
            k == FirstFalse(inp.answers.node_checks)
            ran == Events("request_check")
        IN  k # 0 =>
                /\ Len(ran) = k
                /\ \A i \in 1..k : /\ ran[i].i = i
                                   /\ ran[i].node = n
                                   /\ ran[i].clb = checks[i].clb
                /\ ~Happened("handler")
                /\ ~Happened("response_check")
                /\ out.t = "Response"
                /\ out.status = checks[k].default

\* the first check of two fails: the second is never asked
C3_Witness ==
    /\ IsRequest
    /\ Happened("run")
    /\ DOMAIN inp.answers.node_checks = 1..2
    /\ ~inp.answers.node_checks[1]
    /\ Len(Events("request_check")) = 1
    /\ out.t = "Response"
    /\ out.status = 403

(***************************************************************************)
(* C4. The global request checks stop the request before routing.          *)
(***************************************************************************)
\* C4: the global request checks of the resolved version run in registration
\* order before any routing; when the first to return false is at position k,
\* no later one runs, no node is looked up, no handler and no default endpoint
\* is invoked, and the response has the fallback status of check k and the
\* body {"message": canonical phrase of that status}.
C4_GlobalChecksShortCircuit ==
    IsRequest /\ Happened("global_request_check") =>
        LET V == trace[1].request.version.s
            checks == api.checks_request_global[V]
            k == FirstFalse(inp.answers.global_checks)
            ran == Events("global_request_check")
        IN  /\ \A i \in 1..Len(ran) : ran[i].i = i /\ ran[i].clb = checks[i].clb
            /\ \A i \in 1..Len(ran) : trace[i + 1] = ran[i]
            /\ k # 0 =>
                /\ Len(ran) = k
                /\ Len(trace) = k + 1
                /\ out = [t |-> "Response", status |-> checks[k].default,
                          response |-> [t |-> "json", object |->
                              [m \in {"message"} |-> PyStr(DEFAULT_MESSAGES[checks[k].default])]],
                          content_type |-> "application/json"]

\* the second global check of two fails with fallback status 200
C4_Witness ==
    /\ IsRequest
    /\ DOMAIN inp.answers.global_checks = 1..2
    /\ inp.answers.global_checks = <<TRUE, FALSE>>
    /\ Len(trace) = 3
    /\ out.t = "Response"
    /\ out.status = 200
    /\ out.response.object["message"] = PyStr(<<"O","K">>)

(***************************************************************************)
(* C5. The order of the response checks.                                   *)
(***************************************************************************)
\* the positions in the trace of the events of one kind
Positions(kind) == {i \in 1..Len(trace) : trace[i].ev = kind}

C7_Denoted(ret) ==
    IF ret.t = "APIResponse" THEN ret
    ELSE IF ret.t = "int"
    THEN [t |-> "APIResponse", status_code |-> ret.i, response |-> EmptyDict,
          message |-> Title(DefaultMessage(ret.i))]
    ELSE IF ret.e[2].t = "str"
    THEN [t |-> "APIResponse", status_code |-> ret.e[1].i, response |-> EmptyDict,
          message |-> Title(ret.e[2].s)]
    ELSE [t |-> "APIResponse", status_code |-> ret.e[1].i, response |-> BodyOf(ret.e[2].d),
          message |-> IF "message" \in DOMAIN ret.e[2].d
                      THEN Title(ret.e[2].d["message"].s)
                      ELSE Title(DefaultMessage(ret.e[1].i))]

\* what the claim says of the handler returns in a set of shapes
C7_Says(shapes) ==
    IsRequest /\ Happened("handler") /\ inp.answers.ret.t \in shapes =>
        LET n == Events("handler")[1].node
            V == trace[1].request.version.s
        IN  out = Carrying(Checked(C7_Denoted(inp.answers.ret), n, V))

\* C7: for each of the four documented shapes of a handler's return value (an
\* integer status, a (status, body) pair, a (status, message) pair, a
\* constructed envelope) Node.run completes without error and returns the
\* envelope whose status, body and message the value denotes.
C7_HandlerContract == C7_Says({"int", "tuple", "APIResponse"})

\* the three shapes Node.run does normalize
C7_ButEnvelopes == C7_Says({"int", "tuple"})

(***************************************************************************)
(* C8. The rate-limit integration.                                         *)
(***************************************************************************)
\* C8: with the integration enabled, for every return value ((allowed,
\* metadata), result) of a node's handler or of the default endpoint, the
\* response has status 429 when allowed is false and the status the result
\* denotes when allowed is true, and every key of metadata is in the body with
\* its metadata value.
C8_RateLimit ==
    IsRequest /\ (Happened("handler") \/ Happened("default_endpoint"))
              /\ inp.answers.ret # None =>
        LET allowed == inp.answers.ret.e[1].e[1].b
            metadata == inp.answers.ret.e[1].e[2].d
            result == inp.answers.ret.e[2]
        IN  /\ out.t = "Response"
            /\ out.status = IF allowed THEN C7_Denoted(result).status_code ELSE 429
            /\ \A key \in DOMAIN metadata :
                  /\ key \in DOMAIN out.response.object
                  /\ out.response.object[key] = metadata[key]

\* the same of the handlers returning no constructed envelope and of the
\* default endpoints returning nothing else, the metadata having no "message"
C8_Otherwise ==
    (/\ IsRequest
     /\ Happened("handler") => inp.answers.ret.e[2].t # "APIResponse"
     /\ (Happened("default_endpoint") /\ inp.answers.ret # None)
            => inp.answers.ret.e[2].t = "APIResponse"
     /\ inp.answers.ret # None => "message" \notin DOMAIN inp.answers.ret.e[1].e[2].d)
        => C8_RateLimit

(***************************************************************************)
(* C9. The startup check of run_api.                                       *)
(***************************************************************************)
DefaultRegistered == api.version_default.s \in DOMAIN api.versions

\* C9: after every sequence of registrations, the empty one included, that
\* leaves the default version tag unregistered, run_api raises and the
\* transport is never started, so that no request is dispatched.
C9_StartupCheck ==
    phase # "setup" /\ ~DefaultRegistered =>
        /\ phase = "failed"
        /\ ~IsRequest

(***************************************************************************)
(* C10. No condition of a request unwinds past the dispatcher.             *)
(***************************************************************************)
\* C10: once run_api has started the transport, every request is answered
\* with a response of a status code and a JSON body with a "message" key, and
\* a request for a missing version or a missing path segment with 404.
C10_NoUnwinding ==
    IsRequest =>
        /\ out.t = "Response"
        /\ "message" \in DOMAIN out.response.object
        /\ (~Happened("find_node") /\ ~Happened("default_endpoint")
              /\ ~Happened("global_request_check") /\ ~Happened("run")
              /\ AllPass(inp.answers.global_checks)
              /\ Tail(inp.path) # <<>>) => out.status = 404

\* the same of the requests served with the default version registered, no
\* handler returning a constructed envelope and no default endpoint returning
\* anything else
C10_Otherwise ==
    (/\ IsRequest
     /\ DefaultRegistered
     /\ Happened("handler") => inp.answers.ret.t # "APIResponse"
     /\ Happened("default_endpoint") => Events("default_endpoint")[1].ret.t = "APIResponse")
        => C10_NoUnwinding

(***************************************************************************)
(* The setup phase on its own: add_version with fallbacks, callbacks that  *)
(* raise or register another version, and the registration calls made      *)
(* outside any callback. The application goes on after an exception.       *)
(***************************************************************************)
\* the number of version roots created
MaxRoots == 4
\* the length of a global check list
MaxChecks == 4
\* the number of nodes when a call outside any callback adds one
MaxNodes == 6

SetupCallbacks == {"checked", "broken", "nested"}
Fallbacks == { <<>>, <<"plain">> }
\* api.add("GET")(a), api.add_global_request_check(403)(g1) and
\* api.add_global_response_check()(s1)
TopLevelCalls ==
    { [op |-> "add", methods |-> <<GET>>, ignore |-> FALSE, name |-> NameA],
      [op |-> "add_global_request_check", default |-> 403, clb |-> "g1"],
      [op |-> "add_global_response_check", clb |-> "s1", effect |-> SetX] }

\* the registration stays within the bounds
Small(a, heap) ==
    /\ RootCount(heap) <= MaxRoots
    /\ \A v \in DOMAIN a.checks_request_global :
          /\ Len(a.checks_request_global[v]) <= MaxChecks
          /\ Len(a.checks_response_global[v]) <= MaxChecks

\* api.add_version(version, fallback=fallback)(clb)
Setup(version, fallback, clb) ==
    /\ phase = "setup"
    /\ \E st \in {AddVersion([api |-> api, nodes |-> nodes, env |-> <<>>,
                              raised |-> None, warned |-> 0],
                             version, fallback, clb)} :
          /\ Small(st.api, st.nodes)
          /\ api' = st.api
          /\ nodes' = st.nodes
          /\ out' = st.raised
    /\ inp' = [t |-> "add_version", version |-> version, fallback |-> fallback,
               clb |-> clb]
    /\ UNCHANGED <<phase, trace>>

\* a registration call made outside any callback
TopLevel(call) ==
    /\ phase = "setup"
    /\ \E st \in {ExecInstr([api |-> api, nodes |-> nodes, env |-> <<>>,
                             raised |-> None, warned |-> 0], call)} :
          /\ Small(st.api, st.nodes)
          /\ Len(st.nodes) <= MaxNodes
          /\ api' = st.api
          /\ nodes' = st.nodes
          /\ out' = st.raised
    /\ inp' = [t |-> "call", call |-> call]
    /\ UNCHANGED <<phase, trace>>

NextRegistration ==
    \/ \E fallback \in Fallbacks, clb \in SetupCallbacks : Setup(DefaultVersion, fallback, clb)
    \/ \E call \in TopLevelCalls : TopLevel(call)

SpecRegistration == Init /\ [][NextRegistration]_vars

(***************************************************************************)
(* C11. The registration calls need a version-registration callback.       *)
(***************************************************************************)
\* the call failed with the precondition error and registered nothing
Refused == out' = Raise("AssertionError") /\ api' = api /\ nodes' = nodes

\* C11: after any sequence of registrations, callbacks that raise part-way
\* and nested add_version calls included, a call of API.add,
\* add_global_request_check or add_global_response_check made while no
\* version-registration callback is executing fails with the precondition
\* error and leaves every tree and every global check list unchanged.
C11_RegistrationPrecondition == [][inp'.t = "call" => Refused]_vars

\* the same of the calls made when no callback has raised
C11_Otherwise ==
    [][(inp'.t = "call" /\ api.current_version = None) => Refused]_vars

(***************************************************************************)
(* C12. add_version for a registered tag adds to its tree.                 *)
(***************************************************************************)
\* what a registration registers at the root of `tag`: the child names, and
\* whether it ends without an exception. A callback's body is read from its
\* i-th call on, `cursor` being the version the API object holds as current.
RECURSIVE Registering(_, _, _, _)
RECURSIVE RegisteringAll(_, _, _, _)
Registering(body, i, cursor, tag) ==
    IF i > Len(body) THEN [names |-> {}, done |-> TRUE]
    ELSE LET c == body[i]
             needs == c.op \in {"add", "add_global_request_check",
                                "add_global_response_check"}
         IN  IF c.op = "raise" \/ (needs /\ cursor = None)
             THEN [names |-> {}, done |-> FALSE]
             ELSE IF c.op = "add_version"
             THEN LET inner == RegisteringAll(c.fallback \o <<c.clb>>, 1, c.version, tag)
                      rest == IF inner.done THEN Registering(body, i + 1, None, tag)
                              ELSE [names |-> {}, done |-> FALSE]
                  IN  [names |-> inner.names \cup rest.names, done |-> rest.done]
             ELSE LET rest == Registering(body, i + 1, cursor, tag)
                  IN  [names |-> (IF c.op = "add" /\ cursor = PyStr(tag)
                                  THEN {c.name} ELSE {}) \cup rest.names,
                       done |-> rest.done]
\* the callbacks clbs[i], clbs[i+1], ... applied to `version` one after another
RegisteringAll(clbs, i, version, tag) ==
    IF i > Len(clbs) THEN [names |-> {}, done |-> TRUE]
    ELSE LET first == Registering(UserCallbacks[clbs[i]], 1,
                                  PyStr(Format(VersionPattern, version)), tag)
             rest == IF first.done THEN RegisteringAll(clbs, i + 1, version, tag)
                     ELSE [names |-> {}, done |-> FALSE]
         IN  [names |-> first.names \cup rest.names, done |-> rest.done]
\* the names the add_version call in `call` registers at the root of `tag`
NamesRegistered(call, tag) ==
    RegisteringAll(call.fallback \o <<call.clb>>, 1, call.version, tag).names

\* C12: when add_version is applied for a tag that is registered, the tag's
\* root has afterwards the child names it had and the names the callback
\* registers; each name the callback registers is bound to a node made by
\* this call, and every other name to the very node it was bound to, which is
\* as it was, as is every node under it.
C12_AdditiveMerge ==
    [][inp'.t = "add_version" =>
        \A tag \in DOMAIN api.versions :
            LET had == nodes[api.versions[tag]].children
                has == nodes'[api'.versions[tag]].children
                names == NamesRegistered(inp', tag)
            IN  /\ DOMAIN has = (DOMAIN had) \cup names
                /\ \A n \in names : has[n] > Len(nodes)
                /\ \A n \in (DOMAIN had) \ names : has[n] = had[n]
                /\ \A i \in 1..Len(nodes) : nodes'[i] = nodes[i]]_vars

\* the root of a version has a child made before the root was and a child
\* made after it
C12_Witness ==
    /\ inp.t = "add_version"
    /\ \E tag \in DOMAIN api.versions :
          LET root == api.versions[tag]
              has == nodes[root].children
          IN  \E n, m \in DOMAIN has : has[n] < root /\ root < has[m]

(***************************************************************************)
(* C13. The fallbacks of add_version.                                      *)
(***************************************************************************)
\* the version roots in a heap, in the order they were made
Roots(heap) == SelectSeq([i \in 1..Len(heap) |-> i], LAMBDA i : heap[i].clb.t = "callback")
\* the registration callback during which node j was made: that of the last
\* root made before it
Owner(heap, j) ==
    LET before == {i \in 1..j : heap[i].clb.t = "callback"}
    IN  heap[CHOOSE i \in before : \A k \in before : k <= i].clb.name
\* what the child names of a root are bound to: the handler, the methods it
\* accepts and the callback that registered it
Binding(heap, root) ==
    [n \in DOMAIN heap[root].children |->
        LET j == heap[root].children[n]
        IN  [handler |-> heap[j].clb, methods |-> heap[j].methods,
             by |-> Owner(heap, j)]]
\* the add_version call of `call` went through without an exception
Completed(call, raised) == call.t = "add_version" /\ raised = None

\* C13: add_version(V, fallback=F)(P) runs the callbacks of F in list order
\* and then P, so that the tree of V has the names F or P register, every name
\* P registers being bound to P's node; and the same call made again leaves
\* the same names bound to handlers of the same callbacks.
C13_FallbackLayering ==
    [][Completed(inp', out') =>
        LET tag == Format(VersionPattern, inp'.version)
            had == IF tag \in DOMAIN api.versions
                   THEN nodes[api.versions[tag]].children ELSE <<>>
            root == api'.versions[tag]
            has == nodes'[root].children
            made == SelectSeq(Roots(nodes'), LAMBDA i : i > Len(nodes))
            byF == UNION {NamesRegistered([inp' EXCEPT !.fallback = <<>>, !.clb = f], tag) :
                            f \in {inp'.fallback[i] : i \in DOMAIN inp'.fallback}}
            byP == NamesRegistered([inp' EXCEPT !.fallback = <<>>], tag)
        IN  /\ [i \in DOMAIN made |-> nodes'[made[i]].clb.name] = inp'.fallback \o <<inp'.clb>>
            /\ root = made[Len(made)]
            /\ DOMAIN has = (DOMAIN had) \cup byF \cup byP
            /\ \A n \in byP : has[n] > root /\ Owner(nodes', has[n]) = inp'.clb
            /\ \A n \in byF \ byP : /\ has[n] > Len(nodes)
                                    /\ has[n] < root
                                    /\ Owner(nodes', has[n]) \in
                                          {inp'.fallback[i] : i \in DOMAIN inp'.fallback}
            /\ (Completed(inp, out) /\ inp = inp') =>
                  Binding(nodes', root) = Binding(nodes, api.versions[tag])]_vars

\* add_version(1, fallback=[plain])(checked) made twice: /a is bound to the
\* node of checked and /v2 to the node of plain
C13_Witness ==
    /\ Completed(inp, out)
    /\ inp.fallback = <<"plain">>
    /\ inp.clb = "checked"
    /\ [i \in DOMAIN Roots(nodes) |-> nodes[Roots(nodes)[i]].clb.name]
          = <<"plain", "checked", "plain", "checked">>
    /\ LET bound == Binding(nodes, api.versions[TagV1])
       IN  /\ DOMAIN bound = {NameA, NameV2}
           /\ bound[NameA].by = "checked"
           /\ bound[NameV2].by = "plain"

(***************************************************************************)
(* C14. The message of a response.                                         *)
(***************************************************************************)
\* the message strings a response's message can have been computed from: the
\* canonical phrase of its status, the message the handler or the default
\* endpoint gave, and the messages the response checks set
MessageSources ==
    LET ret == inp.answers.ret
        given(r) == IF r.t = "APIResponse" THEN {r.message}
                    ELSE IF r.t = "tuple" /\ Len(r.e) = 2 /\ r.e[2].t = "str" THEN {r.e[2].s}
                    ELSE IF r.t = "tuple" /\ Len(r.e) = 2 /\ r.e[2].t = "dict"
                            /\ "message" \in DOMAIN r.e[2].d
                    THEN {r.e[2].d["message"].s}
                    ELSE {}
    IN  {DefaultMessage(out.status), SetEnvelopeMessage.value.s,
         <<"N","o"," ","P","a","t","h","!">>} \cup given(ret)

\* C14: every response leaving the dispatcher, whichever path produced it,
\* has a "message" and it is the title-cased form of the message it was
\* computed from.
C14_MessageInvariant ==
    IsRequest /\ out.t = "Response" =>
        /\ "message" \in DOMAIN out.response.object
        /\ out.response.object["message"].t = "str"
        /\ \E m \in MessageSources : out.response.object["message"].s = Title(m)

\* the same of the responses that no global request check rejected
C14_Otherwise ==
    (IsRequest /\ AllPass(inp.answers.global_checks)) => C14_MessageInvariant

(***************************************************************************)
(* C15. The serialization of the envelope.                                 *)
(***************************************************************************)
\* the envelope that reaches the serialization of the request served: the
\* result of routing as the version's global response checks left it
Served ==
    LET req == trace[1].request
        routed == IF req.url = <<>>
                  THEN RunDefaultEndpoint(api, inp.answers)
                  ELSE FindNode(nodes, api.versions[req.version.s], Split(req.url),
                                req, inp.answers)
    IN  IF routed.result.t = "raise" THEN routed.result
        ELSE GlobalResponseChecks(api.checks_response_global[req.version.s], 1,
                                  routed.result).result
\* the request served reached the serialization
Serialized ==
    /\ IsRequest
    /\ trace[1].request.version.s \in DOMAIN api.versions
    /\ AllPass(inp.answers.global_checks)
    /\ Served.t = "APIResponse"

\* C15: for every request that reaches the serialization, the body sent has
\* every key of the envelope's body as the last response check left it, with
\* its value, and the key "message" with the envelope's message; a "message"
\* entry put into the body by rate-limit metadata or by a response check is
\* never sent in its place.
C15_Serialization ==
    Serialized =>
        /\ out.t = "Response"
        /\ out.status = Served.status_code
        /\ out.content_type = "application/json"
        /\ DOMAIN out.response.object = (DOMAIN Served.response) \cup {"message"}
        /\ \A k \in (DOMAIN Served.response) \ {"message"} :
              out.response.object[k] = Served.response[k]
        /\ out.response.object["message"] = PyStr(Served.message)

\* the rate-limit metadata put a "message" into the body of an allowed
\* request, and the response has the envelope's message
C15_Witness ==
    /\ Serialized
    /\ Happened("handler")
    /\ inp.answers.ret.e[1].e[1].b
    /\ "message" \in DOMAIN inp.answers.ret.e[1].e[2].d
    /\ "message" \in DOMAIN Served.response
    /\ Served.response["message"] # PyStr(Served.message)
    /\ out.response.object["message"] = PyStr(Served.message)

(***************************************************************************)
(* C16. The method check is the first thing Node.run does.                 *)
(***************************************************************************)
\* C16: when the request's method is not among the methods the node accepts,
\* Node.run returns status 405 and calls none of the node's request checks,
\* not its handler and none of its response checks; when it is, the request
\* checks are called in registration order, then the handler, then the result
\* is normalized, then the response checks are called.
C16_MethodCheckFirst ==
    IsRequest /\ Happened("run") =>
        LET n == Events("run")[1].node
            asked == Events("request_check")
            told == Events("response_check")
        IN  IF ~InSeq(inp.method, nodes[n].methods)
            THEN /\ ~Happened("request_check")
                 /\ ~Happened("handler")
                 /\ ~Happened("response_check")
                 /\ out.t = "Response"
                 /\ out.status = 405
            ELSE /\ \A i \in 1..Len(asked) :
                        asked[i].clb = nodes[n].checks_request[i].clb /\ asked[i].node = n
                 /\ \A i \in 1..Len(told) :
                        told[i].clb = nodes[n].checks_response[i].clb /\ told[i].node = n
                 /\ \A i \in Positions("run"), j \in Positions("request_check") : i < j
                 /\ \A i \in Positions("request_check"), j \in Positions("handler") : i < j
                 /\ \A i \in Positions("handler"), j \in Positions("response_check") : i < j
                 /\ Happened("handler") =>
                        /\ Len(asked) = Len(nodes[n].checks_request)
                        /\ Len(Events("handler")) = 1
                 /\ Happened("response_check") =>
                        /\ Happened("handler")
                        /\ told[1].saw = Normalize(inp.answers.ret)

\* a node with request checks is asked for a method it does not accept
C16_Witness ==
    /\ IsRequest
    /\ Happened("run")
    /\ nodes[Events("run")[1].node].checks_request # <<>>
    /\ ~InSeq(inp.method, nodes[Events("run")[1].node].methods)
    /\ ~Happened("request_check")
    /\ out.t = "Response"
    /\ out.status = 405

(***************************************************************************)
(* C17. A request a node's request check rejects.                          *)
(***************************************************************************)
\* what the claim says of a request that a request check of the node
\* rejects, `after` saying which calls may not follow the rejection
C17_Says(after) ==
    IsRequest /\ Happened("request_check") /\ FirstFalse(inp.answers.node_checks) # 0 =>
        LET n == Events("run")[1].node
            k == FirstFalse(inp.answers.node_checks)
        IN  /\ \A i \in 1..Len(trace) : trace[i].ev \notin after
            /\ out.t = "Response"
            /\ out.status = nodes[n].checks_request[k].default

\* C17: when a request check of the node returns false, the envelope with
\* the check's fallback status is returned to the transport and neither the
\* handler nor any response check is called: not the node's own response
\* checks and not the global response checks of the version.
C17_RejectionBypassesChecks ==
    C17_Says({"handler", "response_check", "global_response_check"})

\* the same of the handler and the node's own response checks
C17_NodeOnly == C17_Says({"handler", "response_check"})

(***************************************************************************)
(* C18. The default endpoint.                                              *)
(***************************************************************************)
\* what the claim says of the requests that come to be routed, `configured`
\* saying for which default endpoints
C18_Says(configured) ==
    (/\ IsRequest
     /\ trace[1].request.version.s \in DOMAIN api.versions
     /\ AllPass(inp.answers.global_checks)
     /\ api.default_endpoint.name \in configured) =>
        LET req == trace[1].request
            V == req.version.s
        IN  IF req.url = <<>>
            THEN /\ Len(Events("default_endpoint")) = 1
                 /\ Events("default_endpoint")[1].clb = api.default_endpoint.name
                 /\ ~Happened("find_node")
                 /\ ~Happened("run")
                 /\ ~Happened("handler")
                 /\ \A i \in Positions("default_endpoint"),
                       j \in Positions("global_response_check") : i < j
                 /\ Events("default_endpoint")[1].ret.t = "APIResponse" =>
                        Len(Events("global_response_check"))
                            = Len(api.checks_response_global[V])
                 /\ api.default_endpoint.name = "_default_endpoint" =>
                        /\ out.t = "Response"
                        /\ out.status = 404
                        /\ "message" \in DOMAIN out.response.object
            ELSE /\ ~Happened("default_endpoint")
                 /\ Happened("find_node")
                 /\ Events("find_node")[1].node = api.versions[V]

\* C18: in every configuration, with the rate-limit integration or without,
\* a request with nothing left of its path after the version is answered by
\* the default endpoint and by no node's handler, and then the global response
\* checks of the version run; with no default endpoint set the response has
\* status 404 and a message. A request with something left of its path is
\* routed by find_node of the version's root and not to the default endpoint.
C18_DefaultEndpoint == C18_Says({"_default_endpoint", "index"})

\* the same of the configurations with a default endpoint set
C18_Configured == C18_Says({"index"})

(***************************************************************************)
(* NAA.asynchronous: API._application_async. The asynchronous API inherits *)
(* add_version and add, which build the tree of the synchronous Node, so    *)
(* find_node and run are the synchronous ones, called with coroutine        *)
(* functions for handlers and checks.                                       *)
(***************************************************************************)
\* what calling a coroutine function returns
Coroutine == [t |-> "coroutine"]

\* the answers Node.run gets from coroutine functions it does not await: a
\* coroutine from the handler, and from every check a coroutine, which is true
Unawaited(oracle) ==
    [ret |-> Coroutine,
     node_checks |-> [i \in DOMAIN oracle.node_checks |-> TRUE],
     global_checks |-> oracle.global_checks]

ApplicationAsync(a, heap, request, oracle) ==
    LET \* lines 112-123: check(result) makes a coroutine that is never awaited
        Finish(result, called) == [out |-> Serialize(result), trace |-> called]
        Check(routed, called) ==
            IF routed.result.t = "raise"
            THEN [out |-> routed.result, trace |-> called \o routed.trace]
            ELSE Finish(routed.result, called \o routed.trace)
        \* lines 107-110: await of what find_node returned, an APIResponse
        Await(found) ==
            IF found.result.t = "raise" THEN found
            ELSE [result |-> Raise("TypeError"), trace |-> found.trace]
        \* lines 91-110
        Route(pre, req, made) ==
            IF pre.failed # 0
            THEN [out |-> GlobalCheckResponse(
                            a.checks_request_global[req.version.s][pre.failed].default),
                  trace |-> made \o pre.trace]
            ELSE Check(IF req.url = <<>>
                       THEN RunDefaultEndpoint(a, oracle)
                       ELSE Await(FindNode(heap, a.versions[req.version.s],
                                           Split(req.url), req, Unawaited(oracle))),
                       made \o pre.trace)
        \* lines 83-89
        Pre(req) ==
            IF req.version = None \/ req.version.s \notin DOMAIN a.checks_request_global
            THEN [out |-> Raise("TypeError"),
                  trace |-> <<[ev |-> "APIRequest", request |-> req]>>]
            ELSE Route(GlobalRequestChecks(a.checks_request_global[req.version.s],
                                           oracle.global_checks, 1),
                       req, <<[ev |-> "APIRequest", request |-> req]>>)
        \* lines 75-81
        Build(resolved) ==
            Pre([t |-> "APIRequest", method |-> request.method, url |-> resolved.path,
                 version |-> resolved.version])
    IN  Build(ResolveVersion(a, request.path))

\* the transport hands a request to the asynchronous API._application; the
\* answers are those the plain functions would give
DispatchAsync(method, path) ==
    /\ phase = "serving"
    /\ inp = None
    /\ LET request == [t |-> "Request", method |-> method, path |-> path,
                       answers |-> None]
       IN  \E oracle \in Oracles(api, nodes, request) :
              \E r \in {ApplicationAsync(api, nodes, request, oracle)} :
                 /\ inp' = [request EXCEPT !.answers = oracle]
                 /\ out' = r.out
                 /\ trace' = r.trace
    /\ UNCHANGED <<api, nodes, phase>>

NextAsync ==
    \/ \E version \in Versions, clb \in CallbackNames : Register(version, <<>>, clb)
    \/ SetDefaultEndpoint
    \/ RunApi
    \/ \E method \in RequestMethods, path \in RequestPaths : DispatchAsync(method, path)
    \/ Deliver

SpecAsync == Init /\ [][NextAsync]_vars

(***************************************************************************)
(* C19. The asynchronous API answers as the synchronous one.               *)
(***************************************************************************)
\* what the synchronous dispatcher answers to the request served, after the
\* same registrations and with the same answers of user code
Synchronous == Application(api, nodes, [inp EXCEPT !.answers = None], inp.answers).out

\* what the claim says of the requests that `which` holds of
C19_Says(which) ==
    (IsRequest /\ which /\ Synchronous.t = "Response") =>
        /\ out.t = "Response"
        /\ out.status = Synchronous.status
        /\ out.response = Synchronous.response

\* C19: after the same registrations made through NAA.asynchronous.API with
\* coroutine functions as through NAA.API with plain functions, every request
\* gets the same status code and the same serialized body from the
\* asynchronous dispatcher as from the synchronous one, the mutations of the
\* global response checks included.
C19_SyncAsyncEquivalence == C19_Says(TRUE)

\* the same of the requests with nothing left of the path after the version,
\* for a version without global response checks
C19_EmptyPath ==
    C19_Says(/\ trace[1].request.url = <<>>
             /\ trace[1].request.version.s \in DOMAIN api.checks_response_global
             /\ api.checks_response_global[trace[1].request.version.s] = <<>>)

(***************************************************************************)
(* C20. Dispatching leaves the registrations alone.                        *)
(***************************************************************************)
\* what the registrations made: the version tags with their roots, every
\* node (children, methods, request checks, response checks), the global
\* check lists of every version, the default endpoint and the cursor
Registration ==
    <<api.versions, nodes, api.checks_request_global, api.checks_response_global,
      api.default_endpoint, api.current_version>>

\* C20: whatever the request and its outcome (success, 404, 405, rejection by
\* a check), dispatching it leaves the version tags, every node's children,
\* methods, request checks and response checks, every version's global check
\* lists, the default endpoint and the cursor as they were.
C20_DispatchReadOnly ==
    [][(inp = None /\ inp'.t = "Request") => Registration' = Registration]_vars

\* a request was rejected by a check of a node, in an API with global checks
\* and a default endpoint of its own
C20_Witness ==
    /\ IsRequest
    /\ Happened("request_check")
    /\ ~Happened("handler")
    /\ \E tag \in DOMAIN api.versions :
          /\ api.checks_request_global[tag] # <<>>
          /\ api.checks_response_global[tag] # <<>>
    /\ api.default_endpoint # Function("_default_endpoint")

(***************************************************************************)
(* C21. The cursor and the version a registration call works on.           *)
(***************************************************************************)
\* what the calls of a callback of `version` register for `tag` when each
\* call made in the callback works on the callback's version: the child names
\* at the root and the numbers of global request and response checks. The
\* body is read from its i-th call on; `done` says no exception ended it.
RECURSIVE Scoped(_, _, _, _)
RECURSIVE ScopedAll(_, _, _, _)
Scoped(body, i, version, tag) ==
    IF i > Len(body) THEN [names |-> {}, req |-> 0, res |-> 0, done |-> TRUE]
    ELSE LET c == body[i]
             here == Format(VersionPattern, version) = tag
             Plus(first, rest) ==
                [names |-> first.names \cup rest.names, req |-> first.req + rest.req,
                 res |-> first.res + rest.res, done |-> rest.done]
             Then(first) ==
                IF first.done THEN Plus(first, Scoped(body, i + 1, version, tag))
                ELSE first
         IN  CASE c.op = "raise" -> [names |-> {}, req |-> 0, res |-> 0, done |-> FALSE]
               [] c.op = "add_version" ->
                    Then(ScopedAll(c.fallback \o <<c.clb>>, 1, c.version, tag))
               [] OTHER ->
                    Then([names |-> IF c.op = "add" /\ here THEN {c.name} ELSE {},
                          req |-> IF c.op = "add_global_request_check" /\ here THEN 1 ELSE 0,
                          res |-> IF c.op = "add_global_response_check" /\ here THEN 1 ELSE 0,
                          done |-> TRUE])
\* the callbacks clbs[i], clbs[i+1], ... applied to `version` one after another
ScopedAll(clbs, i, version, tag) ==
    IF i > Len(clbs) THEN [names |-> {}, req |-> 0, res |-> 0, done |-> TRUE]
    ELSE LET first == Scoped(UserCallbacks[clbs[i]], 1, version, tag)
             rest == ScopedAll(clbs, i + 1, version, tag)
         IN  IF ~first.done THEN first
             ELSE [names |-> first.names \cup rest.names, req |-> first.req + rest.req,
                   res |-> first.res + rest.res, done |-> rest.done]

\* the callbacks an add_version call applies, those applied inside them included
RECURSIVE Applied(_)
Applied(clbs) ==
    UNION { {clbs[k]} \cup
            UNION { Applied(UserCallbacks[clbs[k]][j].fallback
                            \o <<UserCallbacks[clbs[k]][j].clb>>) :
                    j \in {j \in DOMAIN UserCallbacks[clbs[k]] :
                             UserCallbacks[clbs[k]][j].op = "add_version"} } :
            k \in DOMAIN clbs }
\* the callback raises, or applies add_version
Raising(clb) == \E j \in DOMAIN UserCallbacks[clb] : UserCallbacks[clb][j].op = "raise"
Nesting(clb) == \E j \in DOMAIN UserCallbacks[clb] : UserCallbacks[clb][j].op = "add_version"

\* the lists of a tag in a map of global check lists
ListOf(lists, tag) == IF tag \in DOMAIN lists THEN lists[tag] ELSE <<>>
\* the child names at the root of a tag
NamesOf(a, heap, tag) ==
    IF tag \in DOMAIN a.versions THEN DOMAIN heap[a.versions[tag]].children ELSE {}

\* what the claim says of the add_version calls whose callbacks are in `which`
C21_Says(which) ==
    (inp'.t = "add_version"
        /\ \A c \in Applied(inp'.fallback \o <<inp'.clb>>) : c \in which) =>
        /\ api'.current_version = None
        /\ \A tag \in DOMAIN api'.versions :
              LET by == ScopedAll(inp'.fallback \o <<inp'.clb>>, 1, inp'.version, tag)
              IN  /\ NamesOf(api', nodes', tag) = NamesOf(api, nodes, tag) \cup by.names
                  /\ Len(api'.checks_request_global[tag])
                        = Len(ListOf(api.checks_request_global, tag)) + by.req
                  /\ Len(api'.checks_response_global[tag])
                        = Len(ListOf(api.checks_response_global, tag)) + by.res

\* C21: every API.add, add_global_request_check and add_global_response_check
\* call made while the callback of version V executes adds to the tree or the
\* global check lists of V and of no other version, an add_version for
\* another version applied inside the callback notwithstanding; and when no
\* registration callback executes, the cursor is unset.
C21_CursorScoping == [][C21_Says(DOMAIN UserCallbacks)]_vars

\* the same of the callbacks that neither raise nor apply add_version
C21_Otherwise ==
    [][C21_Says({c \in DOMAIN UserCallbacks : ~Raising(c) /\ ~Nesting(c)})]_vars

\* the same of the callbacks that do not raise
C21_NoRaise == [][C21_Says({c \in DOMAIN UserCallbacks : ~Raising(c)})]_vars

(***************************************************************************)
(* C22. The global checks of the version the request resolves to.          *)
(***************************************************************************)
\* the names of the callbacks of a list of checks
Callbacks(checks) == [i \in DOMAIN checks |-> checks[i].clb]

\* C22: for a request resolved to version V the global request checks
\* registered for V run, in their order and until one fails, whatever is left
\* of the path, nothing or the name of no node included; and the global checks
\* that run, request checks and response checks, are those of V's lists, none
\* of another version's.
C22_GlobalCheckScope ==
    (IsRequest /\ trace[1].request.version.s \in DOMAIN api.checks_request_global) =>
        LET V == trace[1].request.version.s
            k == FirstFalse(inp.answers.global_checks)
            pre == Callbacks(api.checks_request_global[V])
            post == Callbacks(api.checks_response_global[V])
            ran == Callbacks(Events("global_request_check"))
            ranPost == Callbacks(Events("global_response_check"))
        IN  /\ Len(ran) = (IF k = 0 THEN Len(pre) ELSE k)
            /\ \A i \in 1..Len(ran) : i <= Len(pre) /\ ran[i] = pre[i]
            /\ \A i \in 1..Len(ranPost) : i <= Len(post) /\ ranPost[i] = post[i]

\* a request for a path of v2 that names no node: the two global request
\* checks of v2 ran, and v1 has no global check
C22_Witness ==
    /\ IsRequest
    /\ trace[1].request.version.s = <<"v","2">>
    /\ trace[1].request.url # <<>>
    /\ Len(Events("global_request_check")) = 2
    /\ Happened("global_response_check")
    /\ ~Happened("handler")
    /\ out.t = "Response"
    /\ out.status = 404
    /\ api.checks_request_global[TagV1] = <<>>
    /\ api.checks_response_global[TagV1] = <<>>

(***************************************************************************)
(* Trees with children replaced and with nodes three levels deep, all of   *)
(* the default version, and the requests they answer.                      *)
(***************************************************************************)
TreeCallbacks == {"twice", "deep"}

NextTree ==
    \/ \E clb \in TreeCallbacks : Register(DefaultVersion, <<>>, clb)
    \/ RunApi
    \/ \E method \in RequestMethods, path \in RequestPaths : Dispatch(method, path)
    \/ Deliver

SpecTree == Init /\ [][NextTree]_vars

(***************************************************************************)
(* C23. A child added under a name that is taken.                          *)
(***************************************************************************)
\* the nodes made by API.add and Node.add: those that have a handler
IsChild(heap, j) == heap[j].clb.t = "function"
\* the nodes added under the name n to the parent p (0: the root of the
\* version), in the order they were added
AddedAs(heap, p, n) ==
    {j \in 1..Len(heap) : IsChild(heap, j) /\ heap[j].parent = p /\ heap[j].clb.name = n}
\* the node was added under a name that a later node was added under too, or
\* is below such a node
RECURSIVE Replaced(_, _)
Replaced(heap, j) ==
    /\ IsChild(heap, j)
    /\ \/ \E k \in AddedAs(heap, heap[j].parent, heap[j].clb.name) : k > j
       \/ heap[j].parent # 0 /\ Replaced(heap, heap[j].parent)
\* the children a parent has when each name is bound to the last node added
\* under it
LastWins(heap, p) ==
    LET names == {heap[j].clb.name : j \in {j \in 1..Len(heap) :
                                             IsChild(heap, j) /\ heap[j].parent = p}}
    IN  [n \in names |-> CHOOSE j \in AddedAs(heap, p, n) :
                            \A k \in AddedAs(heap, p, n) : k <= j]

\* C23: adding a child with Node.add or API.add under a name the parent has
\* a child for does not fail; the parent then has the new node for that name
\* and every other child as before; and no request reaches the node that was
\* replaced, the nodes below it or their checks.
C23_ChildReplacement ==
    /\ phase = "setup" => out = None
    /\ \A tag \in DOMAIN api.versions :
          nodes[api.versions[tag]].children = LastWins(nodes, 0)
    /\ \A j \in 1..Len(nodes) :
          (IsChild(nodes, j) /\ ~Replaced(nodes, j)) => nodes[j].children = LastWins(nodes, j)
    /\ IsRequest =>
          \A i \in 1..Len(trace) :
              "node" \in DOMAIN trace[i] => ~Replaced(nodes, trace[i].node)

\* GET /a/v2 is answered 405 by the node added last as v2 under a, the node
\* added first, which accepts GET and has a request check, being replaced
C23_Witness ==
    /\ IsRequest
    /\ inp.method = GET
    /\ trace[1].request.url = <<"a", "/", "v", "2">>
    /\ Len(Events("run")) = 1
    /\ out.t = "Response"
    /\ out.status = 405
    /\ \E j \in 1..Len(nodes) :
          /\ Replaced(nodes, j)
          /\ nodes[j].parent # 0
          /\ nodes[j].clb.name = NameV2
          /\ InSeq(GET, nodes[j].methods)
          /\ nodes[j].checks_request # <<>>

(***************************************************************************)
(* A node on its own: made with a list of methods, bound to the handler a, *)
(* and a request run on it.                                                *)
(***************************************************************************)
\* the number of methods given to a node
MaxMethods == 2
\* the methods as the application writes them
GivenMethods == { <<"g","e","t">>, POST, <<"F","O","O">>, <<>> }
MethodLists == UNION { [1..n -> GivenMethods] : n \in 0..MaxMethods }

\* node = Node(*methods, ignore_invalid_methods=ignore)(a)
CreateNode(methods, ignore) ==
    /\ phase = "setup"
    /\ \E made \in {NodeCall(NodeInit(methods, ignore, <<>>), Function(NameA))} :
          /\ nodes' = <<made.node>>
          /\ trace' = IF made.warned THEN <<[ev |-> "warn", node |-> 1]>> ELSE <<>>
    /\ inp' = [t |-> "Node", methods |-> methods, ignore |-> ignore]
    /\ out' = None
    /\ UNCHANGED <<api, phase>>

\* node.run(request)
RunNode(method) ==
    /\ inp.t = "Node"
    /\ \E ret \in (IF InSeq(method, nodes[1].methods) THEN PlainReturns ELSE {None}) :
          \E r \in {NodeRun(nodes, 1,
                            [t |-> "APIRequest", method |-> method, url |-> NameA,
                             version |-> PyStr(TagV1)],
                            [ret |-> ret, node_checks |-> <<>>, global_checks |-> <<>>])} :
             /\ out' = r.result
             /\ trace' = trace \o r.trace
             /\ inp' = [t |-> "run", methods |-> inp.methods, ignore |-> inp.ignore,
                        method |-> method, ret |-> ret]
    /\ UNCHANGED <<api, nodes, phase>>

NextNode ==
    \/ \E methods \in MethodLists, ignore \in BOOLEAN : CreateNode(methods, ignore)
    \/ \E method \in RequestMethods : RunNode(method)

SpecNode == Init /\ [][NextNode]_vars

(***************************************************************************)
(* C24. A node that accepts no method.                                     *)
(***************************************************************************)
\* the nine HTTP verbs
NineVerbs ==
    { GET, <<"H","E","A","D">>, POST, <<"P","U","T">>, <<"D","E","L","E","T","E">>,
      <<"C","O","N","N","E","C","T">>, <<"O","P","T","I","O","N","S">>,
      <<"T","R","A","C","E">>, <<"P","A","T","C","H">> }
\* the elements of a list
Elements(seq) == {seq[i] : i \in DOMAIN seq}

\* C24: a node can be made with methods none of which is valid, or with none,
\* and a handler bound to it; a warning is emitted at most, and none when
\* ignore_invalid_methods is set; the node accepts the given methods that,
\* upper-cased, are among the nine HTTP verbs, and when it accepts none it
\* answers every request with 405 and does not invoke its handler.
C24_EmptyMethodSet ==
    inp.t \in {"Node", "run"} =>
        LET node == nodes[1]
            warned == \E i \in 1..Len(trace) : trace[i].ev = "warn"
        IN  /\ node.clb = Function(NameA)
            /\ Elements(node.methods) = {Upper(m) : m \in Elements(inp.methods)} \cap NineVerbs
            /\ warned => (node.methods = <<>> /\ ~inp.ignore)
            /\ (inp.t = "run" /\ node.methods = <<>>) =>
                  /\ out.t = "APIResponse"
                  /\ out.status_code = 405
                  /\ ~Happened("handler")

\* a node given "FOO" only, with the warning ignored, answered a GET with 405
C24_Witness ==
    /\ inp.t = "run"
    /\ inp.methods = << <<"F","O","O">> >>
    /\ inp.ignore
    /\ inp.method = GET
    /\ trace = <<[ev |-> "run", node |-> 1]>>
    /\ out.t = "APIResponse"
    /\ out.status_code = 405

(***************************************************************************)
(* C25. The node of the last segment is the one that is run.               *)
(***************************************************************************)
\* the events of a node at work: its run, its checks, its handler
AtWork == {i \in 1..Len(trace) :
             trace[i].ev \in {"run", "request_check", "handler", "response_check"}}

\* C25: when the path left after the version has several segments, the
\* methods, request checks, handlers and response checks of the nodes on the
\* way and of the version's root play no part: the node the last segment
\* leads to is run, once, and it alone decides by its methods and its request
\* checks whether its handler is invoked; when the path leads to no node,
\* no node is run.
C25_FinalNodeGates ==
    (IsRequest /\ Len(trace) > 1) =>
        LET req == trace[1].request
            target == Walk(api.versions[req.version.s], Split(req.url))
        IN  req.url # <<>> =>
              /\ \A i \in AtWork : trace[i].node = target
              /\ Len(Events("run")) = (IF target = 0 THEN 0 ELSE 1)
              /\ target # 0 =>
                    /\ Len(Events("find_node")) = Len(Split(req.url))
                    /\ InSeq(req.method, nodes[target].methods) =>
                          /\ DOMAIN inp.answers.node_checks
                                = DOMAIN nodes[target].checks_request
                          /\ Happened("handler") <=> AllPass(inp.answers.node_checks)
                    /\ ~InSeq(req.method, nodes[target].methods) => ~Happened("handler")

\* GET /a/v2/a reached the handler of the third node; the first node on the
\* way accepts POST only and has a request check, the second has one too
C25_Witness ==
    /\ IsRequest
    /\ inp.method = GET
    /\ Len(trace) > 1
    /\ trace[1].request.url = <<"a", "/", "v", "2", "/", "a">>
    /\ Len(Events("find_node")) = 3
    /\ Happened("handler")
    /\ ~Happened("request_check")
    /\ LET first == Walk(api.versions[TagV1], <<NameA>>)
           second == Walk(api.versions[TagV1], <<NameA, NameV2>>)
       IN  /\ ~InSeq(GET, nodes[first].methods)
           /\ nodes[first].checks_request # <<>>
           /\ nodes[first].checks_response # <<>>
           /\ nodes[second].checks_request # <<>>

(***************************************************************************)
(* C26. The global check lists over the passes of add_version.             *)
(***************************************************************************)
\* one list begins with the other
IsPrefix(short, long) ==
    /\ Len(short) <= Len(long)
    /\ \A i \in 1..Len(short) : short[i] = long[i]
\* the global checks of one kind that the callbacks clbs[i], clbs[i+1], ...
\* register, in the order of their calls
RECURSIVE ChecksOf(_, _, _)
ChecksOf(clbs, i, op) ==
    IF i > Len(clbs) THEN <<>>
    ELSE Callbacks(SelectSeq(UserCallbacks[clbs[i]], LAMBDA c : c.op = op))
            \o ChecksOf(clbs, i + 1, op)
\* the global request checks a request for the default version meets when
\* every check passes
Met(a, heap) ==
    Callbacks(SelectSeq(Application(a, heap,
                                    [t |-> "Request", method |-> GET, path |-> <<"/">>,
                                     answers |-> None],
                                    [ret |-> None, node_checks |-> <<>>,
                                     global_checks |-> [i \in 1..MaxChecks + 1 |-> TRUE]]).trace,
                        LAMBDA e : e.ev = "global_request_check"))

\* what a step leaves of the lists, and what an add_version call adds
C26_Step ==
    /\ \A tag \in DOMAIN api.checks_request_global :
          /\ tag \in DOMAIN api'.checks_request_global
          /\ IsPrefix(api.checks_request_global[tag], api'.checks_request_global[tag])
          /\ IsPrefix(api.checks_response_global[tag], api'.checks_response_global[tag])
    /\ (/\ Completed(inp', out')
        /\ \A c \in Applied(inp'.fallback \o <<inp'.clb>>) : ~Nesting(c)) =>
          LET tag == Format(VersionPattern, inp'.version)
              passes == inp'.fallback \o <<inp'.clb>>
          IN  /\ Callbacks(api'.checks_request_global[tag])
                    = Callbacks(ListOf(api.checks_request_global, tag))
                        \o ChecksOf(passes, 1, "add_global_request_check")
              /\ Callbacks(api'.checks_response_global[tag])
                    = Callbacks(ListOf(api.checks_response_global, tag))
                        \o ChecksOf(passes, 1, "add_global_response_check")
              /\ Met(api', nodes') = Callbacks(api'.checks_request_global[tag])

\* C26: over the add_version calls for a tag, fallback passes included, the
\* global request checks and the global response checks registered by an
\* earlier pass stay in the version's lists where they are, those of later
\* passes are appended, and no entry is removed or merged with an equal one:
\* a callback that registers a global check and is applied twice has the
\* check run twice for a request.
C26_AppendOnly == [][C26_Step]_vars

\* add_version(1, fallback=[plain])(checked) made twice: g1, g2, g1, g2 are
\* the global request checks of v1, and a request meets the four
C26_Witness ==
    /\ Completed(inp, out)
    /\ inp.fallback = <<"plain">>
    /\ inp.clb = "checked"
    /\ Callbacks(api.checks_request_global[TagV1]) = <<"g1", "g2", "g1", "g2">>
    /\ Callbacks(api.checks_response_global[TagV1]) = <<"s1", "s2", "s1", "s2">>
    /\ Met(api, nodes) = <<"g1", "g2", "g1", "g2">>

(***************************************************************************)
(* C27. The stages of a dispatch.                                          *)
(***************************************************************************)
\* the stage a call of the trace belongs to: 2 Construct, 3 Global
\* pre-check, 4 Route, 5 Global post-check
Stage(e) ==
    CASE e.ev = "APIRequest" -> 2
      [] e.ev = "global_request_check" -> 3
      [] e.ev = "global_response_check" -> 5
      [] OTHER -> 4
\* the first k segments of a path
FirstSegments(segs, k) == SubSeq(segs, 1, k)

\* the stages follow one another and find_node takes the segments one by one;
\* `answered` says whether the dispatch ends with a response
C27_Says(answered) ==
    IsRequest =>
        LET req == trace[1].request
            segs == Split(req.url)
            found == Events("find_node")
        IN  /\ Stage(trace[1]) = 2
            /\ Len(Events("APIRequest")) = 1
            /\ \A i, j \in 1..Len(trace) : i < j => Stage(trace[i]) <= Stage(trace[j])
            /\ Len(found) <= Len(segs)
            /\ \A k \in 1..Len(found) :
                  /\ found[k].segment = segs[k]
                  /\ found[k].node = Walk(api.versions[req.version.s],
                                          FirstSegments(segs, k - 1))
            /\ Len(Events("run")) + Len(Events("default_endpoint")) <= 1
            /\ answered => out.t = "Response"

\* C27: every dispatch goes through Resolve, Construct, Global pre-check,
\* Route, Global post-check and Serialize in this order and never back;
\* find_node takes one segment of the path at each step; and the dispatch
\* ends with one response, whatever the path and the tree.
C27_LinearDispatch == C27_Says(TRUE)

\* the same, the response being claimed when the default version is
\* registered, the handler returns no constructed envelope and the default
\* endpoint returns one
C27_Otherwise ==
    C27_Says(/\ DefaultRegistered
             /\ Happened("handler") => inp.answers.ret.t # "APIResponse"
             /\ Happened("default_endpoint") =>
                   Events("default_endpoint")[1].ret.t = "APIResponse")

====
